---- MODULE Spec2Model ----
(***************************************************************************)
(* A model of the dynamic-programming engines of learnMSA's msa_hmm        *)
(* package: Viterbi decoding (Viterbi.py), the forward, backward and       *)
(* posterior recursions of MsaHmmLayer (MsaHmmLayer.py), the emission      *)
(* tensor of ProfileHMMEmitter (Emitter.py) and the batches, datasets and  *)
(* training steps of Training.py.                                          *)
(*                                                                         *)
(* Numbers.  A probability is a natural number, the numerator of a         *)
(* fraction whose denominator is One = 2^MaxExp; the inputs are 0 or a     *)
(* power of two, so that their logarithm (base 2) is an integer.  Values   *)
(* that the code keeps in log space and only ever adds (the forward and    *)
(* backward variables) are kept as exact fractions in probability space,   *)
(* where the code's sum of logs is a product and its logsumexp a sum.      *)
(* Floating-point rounding is not modelled.                                *)
(*                                                                         *)
(* Tensors.  The code is vectorised over (num_models, b); every element    *)
(* of that batch is computed independently, and the model follows one      *)
(* element: one model k of the cell and one sequence.  Indices are         *)
(* 0-based as in the code.                                                 *)
(***************************************************************************)
EXTENDS Integers, Sequences, FiniteSets, TLC

----------------------------------------------------------------------------
(* Bounds of the model *)

\* number of real states q_k of the model
NumStates == 2
\* largest number of padding states added to reach max_num_states
MaxPad == 1
\* number of symbols of the alphabet (the one-hot depth of the input)
NumSymbols == 2
\* longest sequence
MaxLen == 3
\* probabilities are 0 or 2^e / 2^MaxExp for e in 0..MaxExp
MaxExp == 2
\* the models, sequences and known paths are drawn by seed
MaxModelSeed == 59
MaxSeqSeed == 7
MaxPathSeed == 3
\* longest sequence given to the layer, and its largest parallel_factor
MaxLayerLen == 6
MaxFactor == 3
\* the models and sequences given to the layer are drawn by seed
MaxLayerModelSeed == 11
MaxLayerSeqSeed == 3
\* most models of a cell or of a batch, and most sequences of a batch
MaxModels == 3
MaxBatch == 2
\* sequences of the dataset, their greatest length, the greatest
\* batch_size and the most GPUs
NumSeqs == 3
MaxSeqLen == 2
MaxBatchSize == 2
MaxGpu == 1
\* longest tensor given to safe_log
MaxTensorLen == 2
\* most sequences of the dataset, largest weight of a sequence and lowest
\* prior log density of a model given to compute_prior
MaxNumSeqs == 2
MaxWeight == 2
MaxDensity == 2
\* most updates of the kernels, and most engine calls in progress at once
MaxUpdates == 2
MaxCalls == 2
\* symbols of the alphabet without the terminal symbol, longest model,
\* most models of an emitter and largest weight exp(logit) of a kernel
AlphabetSize == 2
MaxModelLength == 2
MaxEmitterModels == 2
MaxKernelWeight == 3
\* most epochs of fit_model, and the factor of its large batch sizes
MaxEpochs == 2
LargeBatch == 16

----------------------------------------------------------------------------
(* Program constants *)

\* safe_log(x, log_zero_val=-1e3)
log_zero_val == -1000
\* log2 of np.finfo(np.float32).tiny = 2^-126, the epsilon of safe_log
LogTiny == -126
\* np.float32 has 23 bits of mantissa: the positive values below tiny go
\* down to 2^(-126-23)
MantissaBits == 23

----------------------------------------------------------------------------
(* Arithmetic helpers *)

RECURSIVE Pow2(_)
Pow2(e) == IF e = 0 THEN 1 ELSE 2 * Pow2(e - 1)

RECURSIVE Log2(_)
Log2(n) == IF n <= 1 THEN 0 ELSE 1 + Log2(n \div 2)

\* the numerator of probability 1
One == Pow2(MaxExp)

\* sum of f[0] .. f[n-1]
RECURSIVE SumTo(_, _)
SumTo(f, n) == IF n = 0 THEN 0 ELSE f[n - 1] + SumTo(f, n - 1)

\* tf.reduce_max over the indices 0 .. n-1 of f
RECURSIVE reduce_max(_, _)
reduce_max(f, n) ==
    IF n = 1 THEN f[0]
    ELSE LET m == reduce_max(f, n - 1) IN IF f[n - 1] > m THEN f[n - 1] ELSE m

\* the mutant of argmax: the highest index among the maxima
argmax_last(f, n) ==
    CHOOSE x \in 0..(n - 1) :
        \A y \in 0..(n - 1) : f[x] > f[y] \/ (f[x] = f[y] /\ x >= y)

\* tf.math.argmax over the indices 0 .. n-1 of f: the index of the largest
\* value, the smallest such index when several are equal
argmax(f, n) ==
    CHOOSE x \in 0..(n - 1) :
        \A y \in 0..(n - 1) : f[x] > f[y] \/ (f[x] = f[y] /\ x <= y)

----------------------------------------------------------------------------
(* The bounded input sets: a seed determines every entry of a tensor *)

RECURSIVE Lcg(_, _)
Lcg(x, n) == IF n = 0 THEN x ELSE Lcg((x * 75 + 74) % 65537, n - 1)

Rand(seed, idx) == Lcg((seed * 131 + 7) % 65537, idx + 3) \div 16

\* a probability of the model: 0 or a power of two up to One; the seeds
\* differ in how many of the entries they draw are 0 (a quarter, a half or
\* five in eight when MaxExp = 2)
ProbOf(seed, idx) ==
    LET lvl == Rand(seed, idx) % (MaxExp + 2 + 2 * (seed % 3))
    IN IF lvl = 0 \/ lvl > MaxExp + 1 THEN 0 ELSE Pow2(lvl - 1)

Lengths == 1..MaxLen
PadCounts == 0..MaxPad
ModelSeeds == 0..MaxModelSeed
SeqSeeds == 0..MaxSeqSeed
PathSeeds == 0..MaxPathSeed
LayerLengths == 1..MaxLayerLen
Factors == 1..MaxFactor
LayerModelSeeds == 0..MaxLayerModelSeed
LayerSeqSeeds == 0..MaxLayerSeqSeed

----------------------------------------------------------------------------
(* Viterbi.py: safe_log *)

\* epsilon = 2^-126 is below every positive value of the model, so
\* tf.maximum(x, epsilon) is x unless x = 0, where it is epsilon
safe_log(x) ==
    LET log_x == IF x >= 1 THEN Log2(x) - MaxExp ELSE LogTiny
        zero_mask == IF x = 0 THEN 1 ELSE 0
    IN (1 - zero_mask) * log_x + zero_mask * log_zero_val

----------------------------------------------------------------------------
(* State *)

VARIABLES
    hmm_cell,            \* the cell the call reads: one model, padded
    sequences,           \* the input sequence, a symbol id per position
    mask_func,           \* non_homogeneous_mask_func: << >> (None) or <<p>>
    vpc,                 \* position of the viterbi call
    vi,                  \* loop variable i of the running loop
    gamma_val,           \* gamma_val of viterbi_dyn_prog
    gamma,               \* the TensorArray gamma: position -> vector
    vq,                  \* q of viterbi_backtracking
    state_seqs_max_lik,  \* the TensorArray of decoded states
    parallel_factor,     \* parallel_factor of the MsaHmmLayer
    forward_out,         \* what forward_recursion returned: << >> or <<r>>
    backward_out,        \* what backward_recursion returned
    posterior_out,       \* what state_posterior_log_probs returned
    step_counter,        \* cell.step_counter
    num_models,          \* hmm_cell.num_models of a cell of several models
    inputs_shape,        \* the shape of a batch given to such a cell
    viterbi_ret,         \* how viterbi ended on that batch: << >> or <<r>>
    forward_ret,         \* how forward_recursion ended on that batch
    dpc,                 \* position of the get_state_seqs_max_lik call
    seq_lens,            \* data.seq_lens
    indices,             \* indices of get_state_seqs_max_lik
    batch_size,          \* batch_size of get_state_seqs_max_lik
    crop_long_seqs,      \* batch_generator.crop_long_seqs
    old_crop_long_seqs,  \* old_crop_long_seqs of get_state_seqs_max_lik
    ds,                  \* ds of get_state_seqs_max_lik
    decode_ret,          \* what get_state_seqs_max_lik returned
    encoder,             \* encoder of get_state_seqs_max_lik
    return_only_sequences, \* batch_generator.return_only_sequences
    kernel,              \* the version of the trainable kernels
    matrices,            \* the version each derived matrix was made from
    calls,               \* the engine calls in progress
    interleaved,         \* whether calls and updates may interleave
    safe_log_x,          \* the tensor given to safe_log
    safe_log_ret,        \* what safe_log returned: << >> or <<r>>
    num_seqs,            \* MsaHmmLayer.num_seqs
    sequence_weights,    \* MsaHmmLayer.sequence_weights
    prior_log_density,   \* cell.get_prior_log_density(), one per model
    prior_ret,           \* what compute_prior returned: << >> or <<r>>
    length,              \* ProfileHMMEmitter.length, one per model
    emission_kernel,     \* ProfileHMMEmitter.emission_kernel
    insertion_kernel,    \* ProfileHMMEmitter.insertion_kernel
    B,                   \* ProfileHMMEmitter.B: << >> or <<tensor>>
    fasta_file,          \* the raw sequences of the batch generator's data
    batch,               \* what the batch generator returned
    dataset,             \* the dataset make_dataset returned
    yielded,             \* the batches of indices the dataset has yielded
    epochs,              \* epochs of fit_model: << >> or <<e>>
    history              \* the progress of model.fit

viterbiVars ==
    <<hmm_cell, sequences, mask_func, vpc, vi, gamma_val, gamma, vq,
      state_seqs_max_lik>>

layerVars ==
    <<parallel_factor, forward_out, backward_out, posterior_out, step_counter>>

shapeVars == <<num_models, inputs_shape, viterbi_ret, forward_ret>>

decodeVars ==
    <<dpc, seq_lens, indices, batch_size, crop_long_seqs, old_crop_long_seqs,
      ds, decode_ret, encoder, return_only_sequences>>

refreshVars == <<kernel, matrices, calls, interleaved>>

numericVars ==
    <<safe_log_x, safe_log_ret, num_seqs, sequence_weights,
      prior_log_density, prior_ret>>

emitterVars == <<length, emission_kernel, insertion_kernel, B>>

trainingVars == <<fasta_file, batch, dataset, yielded, epochs, history>>

auxVars == <<refreshVars, numericVars, emitterVars, trainingVars>>

vars == <<viterbiVars, layerVars, shapeVars, decodeVars, auxVars>>

\* no batch has been given to a cell of several models
ShapeIdle ==
    /\ num_models = 0
    /\ inputs_shape = << >>
    /\ viterbi_ret = << >>
    /\ forward_ret = << >>

\* get_state_seqs_max_lik has not been called
DecodeIdle ==
    /\ dpc = "idle"
    /\ seq_lens = << >>
    /\ indices = << >>
    /\ batch_size = 0
    /\ crop_long_seqs = << >>
    /\ old_crop_long_seqs = << >>
    /\ ds = << >>
    /\ decode_ret = << >>
    /\ encoder = << >>
    /\ return_only_sequences = << >>

\* no engine call is followed against the parameter updates
RefreshIdle ==
    /\ kernel = 0
    /\ matrices = << >>
    /\ calls = << >>
    /\ interleaved = FALSE

\* safe_log has not been given a tensor and compute_prior has not been
\* called
NumericIdle ==
    /\ safe_log_x = << >>
    /\ safe_log_ret = << >>
    /\ num_seqs = << >>
    /\ sequence_weights = << >>
    /\ prior_log_density = << >>
    /\ prior_ret = << >>

\* no emitter has been built
EmitterIdle ==
    /\ length = << >>
    /\ emission_kernel = << >>
    /\ insertion_kernel = << >>
    /\ B = << >>

\* no batch generator, no dataset and no call of fit_model
TrainingIdle ==
    /\ fasta_file = << >>
    /\ batch = << >>
    /\ dataset = << >>
    /\ yielded = << >>
    /\ epochs = << >>
    /\ history = << >>

AuxIdle == RefreshIdle /\ NumericIdle /\ EmitterIdle /\ TrainingIdle

\* no call of viterbi or of a method of the layer is followed step by step
EnginesIdle ==
    /\ hmm_cell = << >>
    /\ sequences = << >>
    /\ mask_func = << >>
    /\ vpc = "idle"
    /\ vi = 0
    /\ gamma_val = << >>
    /\ gamma = << >>
    /\ vq = 0
    /\ state_seqs_max_lik = << >>
    /\ parallel_factor = 1
    /\ forward_out = << >>
    /\ backward_out = << >>
    /\ posterior_out = << >>
    /\ step_counter = 0

----------------------------------------------------------------------------
(* The HMM cell (the Model Provider) and the emitter *)

\* the emission matrix of one model before padding: a row per real state
em_mat_of(seed, n) ==
    [q \in 0..(n - 1) |->
        [s \in 0..(NumSymbols - 1) |->
            ProbOf(seed, n + n * n + q * NumSymbols + s)]]

\* the mutant of make_B: the padding rows hold probability 1
make_B_ones(em_mat, num_states, max_num_states) ==
    [q \in 0..(max_num_states - 1) |->
        IF q < num_states THEN em_mat[q]
        ELSE [s \in DOMAIN em_mat[0] |-> One]]

\* the mutant of make_B: the rows of zeros are put before the matrix
make_B_pad_front(em_mat, num_states, max_num_states) ==
    [q \in 0..(max_num_states - 1) |->
        IF q >= max_num_states - num_states
        THEN em_mat[q - (max_num_states - num_states)]
        ELSE [s \in DOMAIN em_mat[0] |-> 0]]

\* ProfileHMMEmitter.make_B for one model: tf.pad(em_mat, [[0, padding],
\* [0,0]]) appends max_num_states - em_mat.shape[0] rows of zeros
make_B(em_mat, num_states, max_num_states) ==
    [q \in 0..(max_num_states - 1) |->
        IF q < num_states THEN em_mat[q]
        ELSE [s \in DOMAIN em_mat[0] |-> 0]]

\* the cell of one model with n real states padded to n + pad states: the
\* padding states have no initial mass and no transition to or from them
MakeCell(seed, n, pad) ==
    [ num_states |-> n,
      max_num_states |-> n + pad,
      init_dist |-> [q \in 0..(n + pad - 1) |->
                        IF q < n THEN ProbOf(seed, q) ELSE 0],
      A |-> [qp \in 0..(n + pad - 1) |-> [qn \in 0..(n + pad - 1) |->
                IF qp < n /\ qn < n THEN ProbOf(seed, n + qp * n + qn)
                ELSE 0]],
      B |-> make_B(em_mat_of(seed, n), n, n + pad) ]

\* hmm_cell.log_A_dense: the logarithm of the transition matrix
log_A_dense(cell) ==
    [qp \in 0..(cell.max_num_states - 1) |->
        [qn \in 0..(cell.max_num_states - 1) |-> safe_log(cell.A[qp][qn])]]

\* hmm_cell.log_A_dense_t: log_A_dense transposed
log_A_dense_t(cell) ==
    [qn \in 0..(cell.max_num_states - 1) |->
        [qp \in 0..(cell.max_num_states - 1) |-> log_A_dense(cell)[qp][qn]]]

\* tf.one_hot(x, depth)
one_hot(x, depth) == [s \in 0..(depth - 1) |-> IF s = x THEN 1 ELSE 0]

\* ProfileHMMEmitter.recurrent_init: B_transposed = tf.transpose(B)
B_transposed(cell) ==
    [s \in 0..(NumSymbols - 1) |->
        [q \in 0..(cell.max_num_states - 1) |-> cell.B[q][s]]]

\* ProfileHMMEmitter.call for one position: tf.matmul(inputs, B_transposed)
Emitter_call(inputs, cell) ==
    [q \in 0..(cell.max_num_states - 1) |->
        SumTo([s \in 0..(NumSymbols - 1) |->
                  inputs[s] * B_transposed(cell)[s][q]], NumSymbols)]

\* hmm_cell.emission_probs(sequences): the emitter applied at every position
emission_probs(seqs, cell) ==
    [i \in DOMAIN seqs |-> Emitter_call(one_hot(seqs[i], NumSymbols), cell)]

\* the sequence of length L drawn by seed
SeqOf(seed, L) == [i \in 0..(L - 1) |-> Rand(seed, i) % NumSymbols]

\* the known path of length L over the n real states drawn by seed
PathOf(seed, L, n) == [i \in 0..(L - 1) |-> Rand(seed + 101, i) % n]

----------------------------------------------------------------------------
(* Viterbi.py: the max-plus pass and the backtracking pass *)

\* the value of non_homogeneous_mask_func(i, seq_lens, hmm_cell), or << >>
\* where the code passes None.  The mask function of the model allows, at
\* position i, only the transition p[i-1] -> p[i] of its known path p.
MaskAt(mf, i, cell) ==
    IF mf = << >> THEN << >>
    ELSE << [qp \in 0..(cell.max_num_states - 1) |->
               [qn \in 0..(cell.max_num_states - 1) |->
                   IF qp = mf[1][i - 1] /\ qn = mf[1][i] THEN One ELSE 0]] >>

\* the mutant of viterbi_step: the mask is left out of the maximum
viterbi_step_nomask(gamma_prev, emission_probs_i, cell, non_homogeneous_mask) ==
    LET Q == cell.max_num_states
        a == [qn \in 0..(Q - 1) |->
                reduce_max([qp \in 0..(Q - 1) |->
                               log_A_dense(cell)[qp][qn] + gamma_prev[qp]], Q)]
        b == [q \in 0..(Q - 1) |-> safe_log(emission_probs_i[q])]
    IN [q \in 0..(Q - 1) |-> a[q] + b[q]]

\* viterbi_step: gamma_next[q] = max_q' (log A[q'][q] + gamma_prev[q']
\* [+ safe_log(mask[q'][q])]) + safe_log(emission_probs_i[q])
viterbi_step(gamma_prev, emission_probs_i, cell, non_homogeneous_mask) ==
    LET Q == cell.max_num_states
        a == [qp \in 0..(Q - 1) |-> [qn \in 0..(Q - 1) |->
                log_A_dense(cell)[qp][qn] + gamma_prev[qp]
                + (IF non_homogeneous_mask # << >>
                   THEN safe_log(non_homogeneous_mask[1][qp][qn]) ELSE 0)]]
        amax == [qn \in 0..(Q - 1) |->
                    reduce_max([qp \in 0..(Q - 1) |-> a[qp][qn]], Q)]
        b == [q \in 0..(Q - 1) |-> safe_log(emission_probs_i[q])]
    IN [q \in 0..(Q - 1) |-> amax[q] + b[q]]

\* the mutant of viterbi_backtracking_step: the mask is left out of the
\* backtracking pass
viterbi_backtracking_step_nomask(q, gamma_state, cell, non_homogeneous_mask) ==
    LET Q == cell.max_num_states
    IN argmax([qp \in 0..(Q - 1) |->
                  log_A_dense_t(cell)[q][qp] + gamma_state[qp]], Q)

\* the mutant of viterbi_backtracking_step: a row of log_A_dense is
\* gathered instead of a column (the matrix is not transposed)
viterbi_backtracking_step_row(q, gamma_state, cell, non_homogeneous_mask) ==
    LET Q == cell.max_num_states
        A_q == [qp \in 0..(Q - 1) |->
                   log_A_dense(cell)[q][qp]
                   + (IF non_homogeneous_mask # << >>
                      THEN safe_log(non_homogeneous_mask[1][q][qp]) ELSE 0)]
    IN argmax([qp \in 0..(Q - 1) |-> A_q[qp] + gamma_state[qp]], Q)

\* viterbi_backtracking_step: the predecessor of q, the argmax over q' of
\* log_A_dense_t[q][q'] [+ safe_log(mask transposed [q][q'])] + gamma[q']
viterbi_backtracking_step(q, gamma_state, cell, non_homogeneous_mask) ==
    LET Q == cell.max_num_states
        A_q == [qp \in 0..(Q - 1) |->
                   log_A_dense_t(cell)[q][qp]
                   + (IF non_homogeneous_mask # << >>
                      THEN safe_log(non_homogeneous_mask[1][qp][q]) ELSE 0)]
    IN argmax([qp \in 0..(Q - 1) |-> A_q[qp] + gamma_state[qp]], Q)

\* gamma_val = safe_log(init) + safe_log(b0)
viterbi_gamma_0(seqs, cell) ==
    [q \in 0..(cell.max_num_states - 1) |->
        safe_log(cell.init_dist[q]) + safe_log(emission_probs(seqs, cell)[0][q])]

SeqLen == Cardinality(DOMAIN sequences)

\* an evaluated tensor: the identity on f.  It makes the model checker
\* compute the entries of f once instead of on every access.
Tensor(f) == IF f = << >> THEN f ELSE f

\* the value b, computed after the tensor a: the order of evaluation of a
\* recursion over the steps of a sequence
After(a, b) == IF a = << >> THEN b ELSE b

\* viterbi_dyn_prog as a function of its arguments: the TensorArray gamma
\* after the iteration that writes row i
RECURSIVE viterbi_dyn_prog_upto(_, _, _, _)
viterbi_dyn_prog_upto(seqs, cell, mf, i) ==
    IF i = 0 THEN Tensor([k \in {0} |-> Tensor(viterbi_gamma_0(seqs, cell))])
    ELSE LET prev == viterbi_dyn_prog_upto(seqs, cell, mf, i - 1)
             gamma_next == Tensor(viterbi_step(prev[i - 1],
                                      Tensor(emission_probs(seqs, cell)[i]),
                                      cell, MaskAt(mf, i, cell)))
         IN After(prev, After(gamma_next,
                Tensor([k \in 0..i |-> IF k = i THEN gamma_next ELSE prev[k]])))

\* viterbi_dyn_prog: the table gamma of all positions
viterbi_dyn_prog(seqs, cell, mf) ==
    viterbi_dyn_prog_upto(seqs, cell, mf, Cardinality(DOMAIN seqs) - 1)

\* viterbi_backtracking as a function of its arguments: the TensorArray
\* state_seqs_max_lik after the iteration that writes position i of L
RECURSIVE viterbi_backtracking_from(_, _, _, _, _)
viterbi_backtracking_from(cell, gam, L, mf, i) ==
    IF i = L - 1
    THEN Tensor([k \in {L - 1} |-> argmax(gam[L - 1], cell.max_num_states)])
    ELSE LET later == viterbi_backtracking_from(cell, gam, L, mf, i + 1)
             q == viterbi_backtracking_step(later[i + 1], gam[i], cell,
                                            MaskAt(mf, i + 1, cell))
         IN After(later,
                Tensor([k \in i..(L - 1) |-> IF k = i THEN q ELSE later[k]]))

\* viterbi_backtracking: the decoded path
viterbi_backtracking(cell, gam, mf) ==
    viterbi_backtracking_from(cell, gam, Cardinality(DOMAIN gam), mf, 0)

\* viterbi(sequences, hmm_cell, non_homogeneous_mask_func) as one call
viterbi(seqs, cell, mf) ==
    viterbi_backtracking(cell, viterbi_dyn_prog(seqs, cell, mf), mf)

\* viterbi_dyn_prog up to the loop: gamma.write(0, gamma_val)
viterbi_dyn_prog_start ==
    /\ vpc = "start"
    /\ gamma_val' = viterbi_gamma_0(sequences, hmm_cell)
    /\ gamma' = [k \in {0} |-> gamma_val']
    /\ vi' = 1
    /\ vpc' = "dyn_prog"
    /\ UNCHANGED <<auxVars, shapeVars, decodeVars, layerVars, hmm_cell, sequences, mask_func, vq, state_seqs_max_lik>>

\* one iteration of "for i in tf.range(1, L)" of viterbi_dyn_prog
viterbi_dyn_prog_loop ==
    /\ vpc = "dyn_prog"
    /\ vi < SeqLen
    /\ gamma_val' = viterbi_step(gamma_val,
                                 emission_probs(sequences, hmm_cell)[vi],
                                 hmm_cell, MaskAt(mask_func, vi, hmm_cell))
    /\ gamma' = [k \in 0..vi |-> IF k = vi THEN gamma_val' ELSE gamma[k]]
    /\ vi' = vi + 1
    /\ UNCHANGED <<auxVars, shapeVars, decodeVars, layerVars, hmm_cell, sequences, mask_func, vpc, vq, state_seqs_max_lik>>

\* viterbi_dyn_prog returns gamma; viterbi_backtracking up to its loop:
\* q = argmax(gamma[:,:,-1]), state_seqs_max_lik.write(L-1, q)
viterbi_backtracking_start ==
    /\ vpc = "dyn_prog"
    /\ vi = SeqLen
    /\ vq' = argmax(gamma[SeqLen - 1], hmm_cell.max_num_states)
    /\ state_seqs_max_lik' = [k \in {SeqLen - 1} |-> vq']
    /\ vi' = SeqLen - 2
    /\ vpc' = "backtracking"
    /\ UNCHANGED <<auxVars, shapeVars, decodeVars, layerVars, hmm_cell, sequences, mask_func, gamma_val, gamma>>

\* one iteration of "for i in tf.range(L-2, -1, -1)" of viterbi_backtracking
viterbi_backtracking_loop ==
    /\ vpc = "backtracking"
    /\ vi >= 0
    /\ vq' = viterbi_backtracking_step(vq, gamma[vi], hmm_cell,
                                       MaskAt(mask_func, vi + 1, hmm_cell))
    /\ state_seqs_max_lik' =
           [k \in vi..(SeqLen - 1) |->
               IF k = vi THEN vq' ELSE state_seqs_max_lik[k]]
    /\ vi' = vi - 1
    /\ UNCHANGED <<auxVars, shapeVars, decodeVars, layerVars, hmm_cell, sequences, mask_func, vpc, gamma_val, gamma>>

\* viterbi returns state_seqs_max_lik
viterbi_return ==
    /\ vpc = "backtracking"
    /\ vi < 0
    /\ vpc' = "done"
    /\ UNCHANGED <<auxVars, shapeVars, decodeVars, layerVars, hmm_cell, sequences, mask_func, vi, gamma_val, gamma, vq,
                   state_seqs_max_lik>>

\* a call of viterbi(sequences, hmm_cell, non_homogeneous_mask_func) on a
\* model, a sequence and a mask function of the bounded input sets
ViterbiInit ==
    /\ \E seed \in ModelSeeds, pad \in PadCounts :
          hmm_cell = MakeCell(seed, NumStates, pad)
    /\ \E L \in Lengths :
          /\ \E seed \in SeqSeeds : sequences = SeqOf(seed, L)
          /\ \/ mask_func = << >>
             \/ \E seed \in PathSeeds :
                   mask_func = << PathOf(seed, L, NumStates) >>
    /\ vpc = "start"
    /\ vi = 0
    /\ gamma_val = << >>
    /\ gamma = << >>
    /\ vq = 0
    /\ state_seqs_max_lik = << >>
    /\ parallel_factor = 1
    /\ forward_out = << >>
    /\ backward_out = << >>
    /\ posterior_out = << >>
    /\ step_counter = 0
    /\ ShapeIdle
    /\ DecodeIdle
    /\ AuxIdle

ViterbiNext ==
    \/ viterbi_dyn_prog_start
    \/ viterbi_dyn_prog_loop
    \/ viterbi_backtracking_start
    \/ viterbi_backtracking_loop
    \/ viterbi_return

SpecViterbi == ViterbiInit /\ [][ViterbiNext]_vars

----------------------------------------------------------------------------
(* Exact arithmetic for the forward and backward variables.  A value that  *)
(* the code holds as a logarithm is held as the fraction <<n, d>> that is  *)
(* its exponential: adding two logarithms is RMul, logsumexp is RSum and   *)
(* subtracting a logarithm is RDiv.                                        *)

RECURSIVE Gcd(_, _)
Gcd(a, b) == IF b = 0 THEN a ELSE Gcd(b, a % b)

Rat(n, d) ==
    IF n = 0 THEN <<0, 1>> ELSE LET g == Gcd(n, d) IN <<n \div g, d \div g>>

RInt(n) == <<n, 1>>

RMul(a, b) ==
    IF a[1] = 0 \/ b[1] = 0 THEN <<0, 1>>
    ELSE LET g1 == Gcd(a[1], b[2])
             g2 == Gcd(b[1], a[2])
         IN <<(a[1] \div g1) * (b[1] \div g2), (a[2] \div g2) * (b[2] \div g1)>>

RAdd(a, b) ==
    LET g == Gcd(a[2], b[2])
    IN Rat(a[1] * (b[2] \div g) + b[1] * (a[2] \div g), (a[2] \div g) * b[2])

\* a / b; the quotient by 0 (the scale of a vector of zeros) is taken as 0
RDiv(a, b) == IF b[1] = 0 THEN <<0, 1>> ELSE RMul(a, <<b[2], b[1]>>)

\* the sum of f[0] .. f[n-1]
RECURSIVE RSum(_, _)
RSum(f, n) == IF n = 0 THEN <<0, 1>> ELSE RAdd(f[n - 1], RSum(f, n - 1))

----------------------------------------------------------------------------
(* The recurrent cell of the forward pass and its reverse-direction        *)
(* offspring (MsaHmmCell), and the Chunk Composer (TotalProbabilityCell).  *)
(* A state of the cell is [scaled, loglik]: for each of the Z entering     *)
(* states z (Z = 1 when parallel_factor = 1, Z = q otherwise) a vector     *)
(* scaled[z] over the q states and its scale loglik[z]; the true vector    *)
(* is scaled[z][j] * loglik[z].  An initial state has scale 1; a step      *)
(* leaves scaled[z] summing to 1.  The output of a step is                 *)
(* the state laid out as one row of Z*q + Z entries.                       *)

\* the split representation of the Z x q matrix V
Split(V, Z, q) ==
    LET S == Tensor([z \in 0..(Z - 1) |-> RSum(V[z], q)])
    IN [ scaled |-> Tensor([z \in 0..(Z - 1) |-> Tensor([j \in 0..(q - 1) |-> RDiv(V[z][j], S[z])])]),
         loglik |-> S ]

\* the matrix a state stands for
Unsplit(st, Z, q) ==
    Tensor([z \in 0..(Z - 1) |-> Tensor([j \in 0..(q - 1) |-> RMul(st.scaled[z][j], st.loglik[z])])])

\* the output row of a state: the Z*q scaled entries, then the Z scales
OutputRow(st, Z, q) ==
    Tensor([k \in 0..(Z * q + Z - 1) |->
        IF k < Z * q THEN st.scaled[k \div q][k % q] ELSE st.loglik[k - Z * q]])

\* the number of entering states a layer with this parallel_factor tracks
NumEntering(cell, P) == IF P = 1 THEN 1 ELSE cell.max_num_states

\* cell.get_initial_state(batch_size, parallel_factor) for chunk c
\* (counted from 0): the initial distribution when parallel_factor = 1;
\* otherwise, per entering
\* state z, the unit vector of z for the first chunk (z is the state at
\* its first position) and row z of A for a later chunk (z is the state at
\* the last position of the chunk before)
get_initial_state(cell, c, P) ==
    LET q == cell.max_num_states
    IN IF P = 1
       THEN [ scaled |-> Tensor([z \in {0} |-> Tensor([j \in 0..(q - 1) |-> RInt(cell.init_dist[j])])]),
              loglik |-> Tensor([z \in {0} |-> RInt(1)]) ]
       ELSE [ scaled |-> Tensor([z \in 0..(q - 1) |-> Tensor([j \in 0..(q - 1) |->
                            IF c = 0 THEN RInt(IF z = j THEN 1 ELSE 0)
                            ELSE RInt(cell.A[z][j])])]),
              loglik |-> Tensor([z \in 0..(q - 1) |-> RInt(1)]) ]

\* cell(emission_probs_i, state, training, init): one step of the scaled
\* forward recursion; the step with init=True applies no transition
cell_call(E, st, cell, P, init) ==
    LET q == cell.max_num_states
        Z == NumEntering(cell, P)
        V == Unsplit(st, Z, q)
        R == IF init THEN V
             ELSE Tensor([z \in 0..(Z - 1) |-> Tensor([j \in 0..(q - 1) |->
                      RSum(Tensor([k \in 0..(q - 1) |-> RMul(V[z][k], RInt(cell.A[k][j]))]), q)])])
        F == Tensor([z \in 0..(Z - 1) |-> Tensor([j \in 0..(q - 1) |-> RMul(R[z][j], RInt(E[j]))])])
        new == Split(F, Z, q)
    IN [output |-> OutputRow(new, Z, q), state |-> new]

\* reverse_cell.get_initial_state(inputs, batch_size, parallel_factor) for
\* chunk c of the chunked emissions emc: ones when parallel_factor = 1;
\* otherwise, per exiting state z, the unit vector of z for the last chunk
\* (z is the state at its last position) and, for an earlier chunk, the
\* weight A[j][z] * e(z) of leaving state j for state z at the first
\* position of the next chunk
reverse_get_initial_state(cell, emc, c, P) ==
    LET q == cell.max_num_states
    IN IF P = 1
       THEN [ scaled |-> Tensor([z \in {0} |-> Tensor([j \in 0..(q - 1) |-> RInt(1)])]),
              loglik |-> Tensor([z \in {0} |-> RInt(1)]) ]
       ELSE [ scaled |-> Tensor([z \in 0..(q - 1) |-> Tensor([j \in 0..(q - 1) |->
                            IF c = P - 1 THEN RInt(IF z = j THEN 1 ELSE 0)
                            ELSE RInt(cell.A[j][z] * emc[c + 2][1][z])])]),
              loglik |-> Tensor([z \in 0..(q - 1) |-> RInt(1)]) ]

\* reverse_cell(emission_probs_i, state, training, init): one step of the
\* scaled backward recursion.  The output is the backward variable of the
\* position (the emission of the position excluded); the new state carries
\* it times the emission.
reverse_cell_call(E, st, cell, P, init) ==
    LET q == cell.max_num_states
        Z == NumEntering(cell, P)
        V == Unsplit(st, Z, q)
        R == IF init THEN V
             ELSE Tensor([z \in 0..(Z - 1) |-> Tensor([j \in 0..(q - 1) |->
                      RSum(Tensor([k \in 0..(q - 1) |-> RMul(RInt(cell.A[j][k]), V[z][k])]), q)])])
        F == Tensor([z \in 0..(Z - 1) |-> Tensor([j \in 0..(q - 1) |-> RMul(R[z][j], RInt(E[j]))])])
    IN [output |-> OutputRow(Split(R, Z, q), Z, q), state |-> Split(F, Z, q)]

\* tf.keras.layers.RNN(cell, return_sequences=True, return_state=True) on
\* the steps xs (in the order they are processed): the outputs in that
\* order and the final state; no step leaves the initial state as it is
RECURSIVE rnn(_, _, _, _)
rnn(xs, st, cell, P) ==
    IF xs = << >> THEN [outputs |-> << >>, state |-> st]
    ELSE LET r == cell_call(Head(xs), st, cell, P, FALSE)
             rest == rnn(Tail(xs), r.state, cell, P)
         IN After(r.output,
                  [outputs |-> <<r.output>> \o rest.outputs, state |-> rest.state])

\* a sequence reversed (tf.reverse along the time axis, go_backwards)
RECURSIVE Reverse(_)
Reverse(xs) == IF xs = << >> THEN << >> ELSE Reverse(Tail(xs)) \o <<Head(xs)>>

\* the RNN of the reverse cell with go_backwards=True: the steps are
\* processed last to first and the outputs are in processing order
RECURSIVE rnn_rev_steps(_, _, _, _)
rnn_rev_steps(xs, st, cell, P) ==
    IF xs = << >> THEN [outputs |-> << >>, state |-> st]
    ELSE LET r == reverse_cell_call(Head(xs), st, cell, P, FALSE)
             rest == rnn_rev_steps(Tail(xs), r.state, cell, P)
         IN After(r.output,
                  [outputs |-> <<r.output>> \o rest.outputs, state |-> rest.state])

rnn_backward(xs, st, cell, P) == rnn_rev_steps(Reverse(xs), st, cell, P)

\* the RNN of TotalProbabilityCell(cell) over the chunk operators ops
\* (ops[c][z][j]: the weight of state j given the state z the chunk is
\* conditioned on): starting from the initial distribution, output c is
\* the distribution after chunk c, and loglik is the total of the last one
RECURSIVE total_prob_steps(_, _, _)
total_prob_steps(ops, d, q) ==
    IF ops = << >> THEN << >>
    ELSE LET nd == Tensor([j \in 0..(q - 1) |->
                       RSum(Tensor([z \in 0..(q - 1) |-> RMul(d[z], Head(ops)[z][j])]), q)])
         IN After(nd, <<nd>> \o total_prob_steps(Tail(ops), nd, q))

total_prob_rnn(ops, cell) ==
    LET q == cell.max_num_states
        outs == total_prob_steps(ops, Tensor([j \in 0..(q - 1) |-> RInt(cell.init_dist[j])]), q)
    IN [outputs |-> outs, loglik |-> RSum(outs[Len(outs)], q)]

\* the RNN of TotalProbabilityCell(reverse_cell, reverse=True) with
\* go_backwards=True: the operators are composed from the last chunk to
\* the first, starting from ones; the outputs are in processing order
total_prob_rnn_rev(ops, cell) ==
    LET q == cell.max_num_states
    IN total_prob_steps(Reverse(ops), Tensor([j \in 0..(q - 1) |-> RInt(1)]), q)

----------------------------------------------------------------------------
(* MsaHmmLayer.py.  A result is [err |-> TRUE] where the call ends in an   *)
(* error, and carries the returned tensors otherwise.  A tensor with a     *)
(* time axis is a sequence 1..T of rows, a row a function on 0..n-1.       *)

RowLen(row) == Cardinality(DOMAIN row)

\* the mutant of chunk_reshape: the positions beyond
\* parallel_factor * chunk_size are dropped
chunk_reshape_truncate(em, L, P) ==
    LET chunk_size == L \div P
    IN [ ok |-> chunk_size > 0,
         chunks |-> Tensor([c \in 1..P |-> Tensor([t \in 1..chunk_size |->
                        em[(c - 1) * chunk_size + t - 1]])]) ]

\* chunk_size = seq_len // parallel_factor; tf.reshape(emission_probs,
\* (num_model*b*parallel_factor, chunk_size, q)): an error unless the
\* number of elements is the same
chunk_reshape(em, L, P) ==
    LET chunk_size == L \div P
    IN [ ok |-> P * chunk_size = L,
         chunks |-> Tensor([c \in 1..P |-> Tensor([t \in 1..chunk_size |->
                        em[(c - 1) * chunk_size + t - 1]])]) ]

\* x[..., :-1] + x[..., -1:] on one row
scaled_plus_scaling(row) ==
    Tensor([j \in 0..(RowLen(row) - 2) |-> RMul(row[j], row[RowLen(row) - 1])])

\* x[..., :-q] reshaped to (q, -1) plus x[..., -q:] reshaped to (q, 1), on
\* one row: the chunk operator [z][j] of a position
chunk_operator(row, q) ==
    LET w == (RowLen(row) - q) \div q
    IN Tensor([z \in 0..(q - 1) |-> Tensor([j \in 0..(w - 1) |->
           RMul(row[z * w + j], row[RowLen(row) - q + z])])])

\* forward_recursion, lines 94-100, for chunk c (counted from 0)
forward_chunk_pass(emc, cell, c, P) ==
    LET initial_state == get_initial_state(cell, c, P)
        step_1 == cell_call(emc[c + 1][1], initial_state, cell, P, TRUE)
        r == rnn(Tail(emc[c + 1]), step_1.state, cell, P)
    IN After(step_1.output,
             [forward |-> <<step_1.output>> \o r.outputs, loglik |-> r.state.loglik])

\* the mutant of _get_total_forward_from_chunks: the operator of a chunk
\* is read at its first position
get_total_forward_from_chunks_first(forward, cell, L, P) ==
    LET q == cell.max_num_states
        chunk_size == L \div P
    IN IF \E c \in 1..P : Len(forward[c]) # chunk_size THEN [err |-> TRUE]
       ELSE
       LET forward_chunks == Tensor([c \in 1..P |-> Tensor([t \in 1..chunk_size |->
                                 chunk_operator(forward[c][t], q)])])
           forward_chunks_last == Tensor([c \in 1..P |-> forward_chunks[c][1]])
           tp == total_prob_rnn(forward_chunks_last, cell)
           init == get_initial_state(cell, 0, 1).scaled[0]
           T == Tensor([c \in 1..P |-> IF c = 1 THEN init ELSE tp.outputs[c - 1]])
       IN [ err |-> FALSE,
            forward_result |-> Tensor([i \in 0..(P * chunk_size - 1) |-> Tensor([j \in 0..(q - 1) |->
                RSum(Tensor([z \in 0..(q - 1) |->
                         RMul(forward_chunks[(i \div chunk_size) + 1]
                                            [(i % chunk_size) + 1][z][j],
                              T[(i \div chunk_size) + 1][z])]), q)])]),
            loglik |-> tp.loglik ]

\* the mutant of forward_T: every chunk after the first is given the last
\* distribution that is kept, the one before the last chunk
forward_T_last(forward_total, cell, P) ==
    LET init == get_initial_state(cell, 0, 1).scaled[0]
    IN Tensor([c \in 1..P |-> IF c = 1 THEN init ELSE forward_total[P - 1]])

\* the mutant of forward_T: the outputs of total_prob_rnn are used as they
\* are, output j for chunk j
forward_T_no_shift(forward_total, cell, P) == forward_total

\* _get_total_forward_from_chunks, lines 127-129: T is the outputs of
\* total_prob_rnn without the last one and with the initial distribution
\* put in front
forward_T(forward_total, cell, P) ==
    LET init == get_initial_state(cell, 0, 1).scaled[0]
    IN Tensor([c \in 1..P |-> IF c = 1 THEN init ELSE forward_total[c - 1]])

\* _get_total_forward_from_chunks: the reshape of the scaling factors to
\* (num_model*b, parallel_factor, chunk_size, q, 1) is an error unless the
\* time axis of forward has chunk_size entries.  cell.epsilon is below the
\* resolution of the model: log(init + epsilon) is log(init).
get_total_forward_from_chunks(forward, cell, L, P) ==
    LET q == cell.max_num_states
        chunk_size == L \div P
    IN IF \E c \in 1..P : Len(forward[c]) # chunk_size THEN [err |-> TRUE]
       ELSE
       LET forward_chunks == Tensor([c \in 1..P |-> Tensor([t \in 1..chunk_size |->
                                 chunk_operator(forward[c][t], q)])])
           forward_chunks_last == Tensor([c \in 1..P |-> forward_chunks[c][chunk_size]])
           tp == total_prob_rnn(forward_chunks_last, cell)
           T == forward_T(tp.outputs, cell, P)
       IN [ err |-> FALSE,
            forward_result |-> Tensor([i \in 0..(P * chunk_size - 1) |-> Tensor([j \in 0..(q - 1) |->
                RSum(Tensor([z \in 0..(q - 1) |->
                         RMul(forward_chunks[(i \div chunk_size) + 1]
                                            [(i % chunk_size) + 1][z][j],
                              T[(i \div chunk_size) + 1][z])]), q)])]),
            loglik |-> tp.loglik,
            T |-> T ]

\* MsaHmmLayer.forward_recursion(inputs) of a layer with this cell and
\* parallel_factor
forward_recursion(inputs, cell, P) ==
    LET L == Cardinality(DOMAIN inputs)
        rs == chunk_reshape(emission_probs(inputs, cell), L, P)
    IN IF ~rs.ok THEN [err |-> TRUE]
       ELSE
       LET fw == Tensor([c \in 1..P |-> forward_chunk_pass(rs.chunks, cell, c - 1, P)])
       IN IF P = 1
          THEN [ err |-> FALSE,
                 forward_result |-> Tensor([i \in 0..(L - 1) |->
                                        scaled_plus_scaling(fw[1].forward[i + 1])]),
                 loglik |-> fw[1].loglik[0] ]
          ELSE get_total_forward_from_chunks(
                   Tensor([c \in 1..P |-> fw[c].forward]), cell, L, P)

\* backward_recursion, lines 158-161, for chunk c (counted from 0): the
\* rows are in the order they are computed, last position first
backward_chunk_pass(emc, cell, c, P) ==
    LET em == emc[c + 1]
        initial_state == reverse_get_initial_state(cell, emc, c, P)
        step_1 == reverse_cell_call(em[Len(em)], initial_state, cell, P, TRUE)
        r == rnn_backward(SubSeq(em, 1, Len(em) - 1), step_1.state, cell, P)
    IN After(step_1.output, <<step_1.output>> \o r.outputs)

\* the mutant of _get_total_backward_from_chunks: the outputs of
\* total_prob_rnn_rev are left in the order they are computed (without the
\* tf.reverse of line 189)
get_total_backward_from_chunks_unreversed(backward, cell, L, P, revert_chunks) ==
    LET q == cell.max_num_states
        chunk_size == L \div P
    IN IF \E c \in 1..P : Len(backward[c]) # chunk_size THEN [err |-> TRUE]
       ELSE
       LET ops == Tensor([c \in 1..P |-> Tensor([t \in 1..chunk_size |->
                      chunk_operator(backward[c][t], q)])])
           backward_chunks == IF revert_chunks
                              THEN Tensor([c \in 1..P |-> Reverse(ops[c])])
                              ELSE ops
           backward_chunks_last == Tensor([c \in 1..P |-> backward_chunks[c][1]])
           backward_total == total_prob_rnn_rev(backward_chunks_last, cell)
           init == reverse_get_initial_state(cell, << >>, 0, 1).scaled[0]
           T == Tensor([c \in 1..P |-> IF c = P THEN init ELSE backward_total[c + 1]])
       IN [ err |-> FALSE,
            backward_result |-> Tensor([i \in 0..(P * chunk_size - 1) |-> Tensor([j \in 0..(q - 1) |->
                RSum(Tensor([z \in 0..(q - 1) |->
                         RMul(backward_chunks[(i \div chunk_size) + 1]
                                             [(i % chunk_size) + 1][z][j],
                              T[(i \div chunk_size) + 1][z])]), q)])]),
            T |-> T ]

\* _get_total_backward_from_chunks, lines 173-197
get_total_backward_from_chunks(backward, cell, L, P, revert_chunks) ==
    LET q == cell.max_num_states
        chunk_size == L \div P
    IN IF \E c \in 1..P : Len(backward[c]) # chunk_size THEN [err |-> TRUE]
       ELSE
       LET ops == Tensor([c \in 1..P |-> Tensor([t \in 1..chunk_size |->
                      chunk_operator(backward[c][t], q)])])
           backward_chunks == IF revert_chunks
                              THEN Tensor([c \in 1..P |-> Reverse(ops[c])])
                              ELSE ops
           backward_chunks_last == Tensor([c \in 1..P |-> backward_chunks[c][1]])
           backward_total == Reverse(total_prob_rnn_rev(backward_chunks_last, cell))
           init == reverse_get_initial_state(cell, << >>, 0, 1).scaled[0]
           T == Tensor([c \in 1..P |-> IF c = P THEN init ELSE backward_total[c + 1]])
       IN [ err |-> FALSE,
            backward_result |-> Tensor([i \in 0..(P * chunk_size - 1) |-> Tensor([j \in 0..(q - 1) |->
                RSum(Tensor([z \in 0..(q - 1) |->
                         RMul(backward_chunks[(i \div chunk_size) + 1]
                                             [(i % chunk_size) + 1][z][j],
                              T[(i \div chunk_size) + 1][z])]), q)])]),
            T |-> T ]

\* the mutant of backward_recursion: the rows are returned in the order
\* they are computed, last position first
backward_recursion_no_reverse(inputs, cell, P) ==
    LET L == Cardinality(DOMAIN inputs)
        rs == chunk_reshape(emission_probs(inputs, cell), L, P)
    IN IF ~rs.ok THEN [err |-> TRUE]
       ELSE
       LET backward == Tensor([c \in 1..P |-> backward_chunk_pass(rs.chunks, cell, c - 1, P)])
       IN IF P = 1
          THEN [ err |-> FALSE,
                 backward_result |-> Tensor([i \in 0..(L - 1) |->
                                         scaled_plus_scaling(backward[1][i + 1])]) ]
          ELSE get_total_backward_from_chunks(backward, cell, L, P, FALSE)

\* MsaHmmLayer.backward_recursion(inputs)
backward_recursion(inputs, cell, P) ==
    LET L == Cardinality(DOMAIN inputs)
        rs == chunk_reshape(emission_probs(inputs, cell), L, P)
    IN IF ~rs.ok THEN [err |-> TRUE]
       ELSE
       LET backward == Tensor([c \in 1..P |-> backward_chunk_pass(rs.chunks, cell, c - 1, P)])
       IN IF P = 1
          THEN LET backward_result == Tensor([t \in 1..L |-> scaled_plus_scaling(backward[1][t])])
               IN [ err |-> FALSE,
                    backward_result |-> Tensor([i \in 0..(L - 1) |->
                                            Reverse(backward_result)[i + 1]]) ]
          ELSE get_total_backward_from_chunks(backward, cell, L, P, TRUE)

\* the sum of two rows of logarithms
row_add(a, b) == Tensor([k \in DOMAIN a |-> RMul(a[k], b[k])])

\* two rows joined along the last axis
row_concat(a, b) ==
    Tensor([k \in 0..(RowLen(a) + RowLen(b) - 1) |->
        IF k < RowLen(a) THEN a[k] ELSE b[k - RowLen(a)]])

\* tf.reshape of one row to (n, -1)
row_reshape(row, n) ==
    LET w == RowLen(row) \div n
    IN Tensor([k \in 1..n |-> Tensor([m \in 0..(w - 1) |-> row[(k - 1) * w + m]])])

\* tf.keras.layers.Bidirectional(rnn, merge_mode, backward_layer) on the
\* steps xs: the outputs of the backward layer are put back in the order
\* of xs and merged with those of the forward layer, by a sum when
\* parallel_factor = 1 and joined along the last axis otherwise
bidirectional_rnn(xs, fstate, bstate, cell, P) ==
    LET y == rnn(xs, fstate, cell, P)
        y_rev == rnn_backward(xs, bstate, cell, P)
        back == Reverse(y_rev.outputs)
    IN After(y.outputs, After(back,
       [ outputs |-> Tensor([t \in 1..Len(xs) |->
                         IF P > 1 THEN row_concat(y.outputs[t], back[t])
                         ELSE row_add(y.outputs[t], back[t])]),
         fstate |-> y.state,
         bstate |-> y_rev.state ]))

\* the mutant of posterior_concat: the first forward step is paired with
\* the first backward step and the last with the last
posterior_concat_same_step(chunk_size, P, forward_1, backward_1, bi, forward_last, backward_last) ==
    LET posterior_1 == IF P > 1 THEN <<forward_1.output, backward_1.output>>
                       ELSE row_add(forward_1.output, backward_1.output)
        posterior_last == IF P > 1 THEN <<forward_last.output, backward_last.output>>
                          ELSE row_add(forward_last.output, backward_last.output)
        inner == Tensor([t \in 1..(chunk_size - 2) |->
                     IF P > 1 THEN row_reshape(bi.outputs[t], 2) ELSE bi.outputs[t]])
    IN After(forward_last.output, After(backward_last.output,
       [ posterior |-> IF chunk_size > 2
                       THEN <<posterior_1>> \o inner \o <<posterior_last>>
                       ELSE <<posterior_1, posterior_last>>,
         final_state |-> forward_last.state ]))

\* state_posterior_log_probs, lines 235-242, for one chunk: posterior_1,
\* the rows of the bidirectional RNN and posterior_last joined along the
\* time axis.  When parallel_factor > 1 an entry of posterior is the pair
\* of a forward and a backward row.
posterior_concat(chunk_size, P, forward_1, backward_1, bi, forward_last, backward_last) ==
    LET posterior_1 == IF P > 1 THEN <<forward_1.output, backward_last.output>>
                       ELSE row_add(forward_1.output, backward_last.output)
        posterior_last == IF P > 1 THEN <<forward_last.output, backward_1.output>>
                          ELSE row_add(forward_last.output, backward_1.output)
        inner == Tensor([t \in 1..(chunk_size - 2) |->
                     IF P > 1 THEN row_reshape(bi.outputs[t], 2) ELSE bi.outputs[t]])
    IN After(forward_last.output, After(backward_last.output,
       [ posterior |-> IF chunk_size > 2
                       THEN <<posterior_1>> \o inner \o <<posterior_last>>
                       ELSE <<posterior_1, posterior_last>>,
         final_state |-> forward_last.state ]))

\* state_posterior_log_probs, lines 233-234, for one chunk em: the last
\* forward step reads em[:,-1] and the last backward step em[:,0], each
\* from the state the pass over em[:,1:-1] ended in
posterior_last_steps(em, cell, P, forward_1, backward_1, bi) ==
    After(bi.outputs,
          posterior_concat(Len(em), P, forward_1, backward_1, bi,
              cell_call(em[Len(em)], bi.fstate, cell, P, FALSE),
              reverse_cell_call(em[1], bi.bstate, cell, P, FALSE)))

\* state_posterior_log_probs, lines 226-231, for one chunk em: the
\* bidirectional RNN over em[:,1:-1] when the chunk has more than 2
\* positions; otherwise the states of the first steps are carried on
posterior_inner_steps(em, cell, P, forward_1, backward_1) ==
    After(forward_1.output, After(backward_1.output,
          posterior_last_steps(em, cell, P, forward_1, backward_1,
              IF Len(em) > 2
              THEN bidirectional_rnn(SubSeq(em, 2, Len(em) - 1),
                                     forward_1.state, backward_1.state, cell, P)
              ELSE [ outputs |-> << >>,
                     fstate |-> forward_1.state,
                     bstate |-> backward_1.state ])))

\* state_posterior_log_probs, lines 220-242, for chunk c (counted from 0):
\* the first forward step reads em[:,0] and the first backward step
\* em[:,-1], both with init=True
posterior_chunk_pass(emc, cell, c, P) ==
    posterior_inner_steps(emc[c + 1], cell, P,
        cell_call(emc[c + 1][1], get_initial_state(cell, c, P), cell, P, TRUE),
        reverse_cell_call(emc[c + 1][Len(emc[c + 1])],
                          reverse_get_initial_state(cell, emc, c, P), cell, P, TRUE))

\* tf.reshape(posterior, (num_model, b, seq_len, -1)) of the rows of one
\* batch element
rows_reshape(rows, L) ==
    LET n == RowLen(rows[1])
        w == (Len(rows) * n) \div L
    IN Tensor([i \in 0..(L - 1) |-> Tensor([k \in 0..(w - 1) |->
           rows[((i * w + k) \div n) + 1][(i * w + k) % n]])])

\* state_posterior_log_probs, lines 251-253: posterior -= loglik unless
\* no_loglik.  Subtracting the logarithm of a likelihood of 0 is taken to
\* leave 0.
posterior_minus_loglik(posterior, loglik, no_loglik) ==
    [ err |-> FALSE,
      posterior |-> IF no_loglik THEN posterior
                    ELSE Tensor([i \in DOMAIN posterior |->
                             Tensor([j \in DOMAIN posterior[i] |->
                                 RDiv(posterior[i][j], loglik)])]) ]

\* state_posterior_log_probs, line 250: forward_result + backward_result
posterior_of_totals(fr, br, no_loglik) ==
    IF fr.err \/ br.err THEN [err |-> TRUE]
    ELSE posterior_minus_loglik(
             Tensor([i \in DOMAIN fr.forward_result |->
                 row_add(fr.forward_result[i], br.backward_result[i])]),
             fr.loglik, no_loglik)

\* state_posterior_log_probs, lines 243-253, on the posterior rows pc of
\* the chunks
posterior_of_chunks(pc, cell, L, P, no_loglik) ==
    IF P = 1
    THEN posterior_minus_loglik(
             Tensor([i \in 0..(L - 1) |->
                 scaled_plus_scaling(rows_reshape(pc[1].posterior, L)[i])]),
             pc[1].final_state.loglik[0], no_loglik)
    ELSE posterior_of_totals(
             get_total_forward_from_chunks(
                 Tensor([c \in 1..P |-> Tensor([t \in 1..Len(pc[c].posterior) |->
                     pc[c].posterior[t][1]])]), cell, L, P),
             get_total_backward_from_chunks(
                 Tensor([c \in 1..P |-> Tensor([t \in 1..Len(pc[c].posterior) |->
                     pc[c].posterior[t][2]])]), cell, L, P, FALSE),
             no_loglik)

\* MsaHmmLayer.state_posterior_log_probs(inputs, no_loglik)
state_posterior_log_probs(inputs, cell, P, no_loglik) ==
    LET L == Cardinality(DOMAIN inputs)
        rs == chunk_reshape(emission_probs(inputs, cell), L, P)
    IN IF ~rs.ok THEN [err |-> TRUE]
       ELSE posterior_of_chunks(
                Tensor([c \in 1..P |-> posterior_chunk_pass(rs.chunks, cell, c - 1, P)]),
                cell, L, P, no_loglik)

\* a call of forward_recursion on the layer
forward_recursion_call ==
    /\ vpc = "layer"
    /\ forward_out = << >>
    /\ forward_out' = << forward_recursion(sequences, hmm_cell, parallel_factor) >>
    /\ UNCHANGED <<auxVars, shapeVars, decodeVars, viterbiVars, parallel_factor, backward_out, posterior_out,
                   step_counter>>

\* a call of backward_recursion on the layer
backward_recursion_call ==
    /\ vpc = "layer"
    /\ backward_out = << >>
    /\ backward_out' = << backward_recursion(sequences, hmm_cell, parallel_factor) >>
    /\ UNCHANGED <<auxVars, shapeVars, decodeVars, viterbiVars, parallel_factor, forward_out, posterior_out,
                   step_counter>>

\* a call of state_posterior_log_probs on the layer; line 231 adds 1 to
\* the step counter of the cell when a chunk has 2 positions or fewer
state_posterior_log_probs_call ==
    /\ vpc = "layer"
    /\ posterior_out = << >>
    /\ \E no_loglik \in BOOLEAN :
          posterior_out' =
              << [ no_loglik |-> no_loglik,
                   result |-> state_posterior_log_probs(
                                  sequences, hmm_cell, parallel_factor, no_loglik) ] >>
    /\ step_counter' =
           IF /\ chunk_reshape(emission_probs(sequences, hmm_cell),
                               SeqLen, parallel_factor).ok
              /\ SeqLen \div parallel_factor <= 2
           THEN step_counter + 1 ELSE step_counter
    /\ UNCHANGED <<auxVars, shapeVars, decodeVars, viterbiVars, parallel_factor, forward_out, backward_out>>

\* a call of viterbi on the cell of the layer and the same sequence, as
\* one step
viterbi_call ==
    /\ vpc = "layer"
    /\ state_seqs_max_lik = << >>
    /\ state_seqs_max_lik' = viterbi(sequences, hmm_cell, mask_func)
    /\ UNCHANGED <<auxVars, shapeVars, decodeVars, layerVars, hmm_cell, sequences, mask_func, vpc, vi, gamma_val,
                   gamma, vq>>

\* a layer built on a model of the bounded input sets with a
\* parallel_factor, and a sequence to call it on
LayerInit ==
    /\ \E seed \in LayerModelSeeds, pad \in PadCounts :
          hmm_cell = MakeCell(seed, NumStates, pad)
    /\ \E L \in LayerLengths, seed \in LayerSeqSeeds : sequences = SeqOf(seed, L)
    /\ parallel_factor \in Factors
    /\ mask_func = << >>
    /\ vpc = "layer"
    /\ vi = 0
    /\ gamma_val = << >>
    /\ gamma = << >>
    /\ vq = 0
    /\ state_seqs_max_lik = << >>
    /\ forward_out = << >>
    /\ backward_out = << >>
    /\ posterior_out = << >>
    /\ step_counter = 0
    /\ ShapeIdle
    /\ DecodeIdle
    /\ AuxIdle

LayerNext ==
    \/ forward_recursion_call
    \/ backward_recursion_call
    \/ state_posterior_log_probs_call
    \/ viterbi_call

SpecLayer == LayerInit /\ [][LayerNext]_vars

----------------------------------------------------------------------------
(* The model axis: a batch of num_model models given to a cell of          *)
(* num_models models.  A tensor is followed along its model axis only: an  *)
(* entry names the models of the batch and the models of the cell whose    *)
(* values it was computed from.  A result is [err |-> TRUE] when the call  *)
(* ended in an error.                                                      *)

Entry(inp, mod) == [input |-> inp, model |-> mod]

\* sequences: entry m holds the sequences of model m of the batch
BatchAxis(n) == [m \in 0..(n - 1) |-> Entry({m}, {})]

\* init_dist, log_A_dense, log_A_dense_t, B_transposed: entry m holds the
\* parameters of model m of the cell
CellAxis(k) == [m \in 0..(k - 1) |-> Entry({}, {m})]

AxisLen(x) == Cardinality(DOMAIN x)

Raised == [err |-> TRUE]

Returned(x) == [err |-> FALSE, axis |-> x]

\* the mutant of broadcastable: the sizes have to be equal
broadcastable_equal(x, y) == AxisLen(x) = AxisLen(y)

\* the broadcasting rule of tf.matmul (batch dimensions) and of the
\* element-wise operators: two sizes are compatible when they are equal or
\* one of them is 1
broadcastable(x, y) ==
    AxisLen(x) = AxisLen(y) \/ AxisLen(x) = 1 \/ AxisLen(y) = 1

\* x op y with broadcasting: a size of 1 is stretched to the other size
broadcast(x, y) ==
    IF x.err \/ y.err THEN Raised
    ELSE IF ~broadcastable(x.axis, y.axis) THEN Raised
    ELSE LET n == IF AxisLen(x.axis) >= AxisLen(y.axis)
                  THEN AxisLen(x.axis) ELSE AxisLen(y.axis)
             ex(m) == x.axis[IF AxisLen(x.axis) = 1 THEN 0 ELSE m]
             ey(m) == y.axis[IF AxisLen(y.axis) = 1 THEN 0 ELSE m]
         IN Returned([m \in 0..(n - 1) |->
                Entry(ex(m).input \cup ey(m).input,
                      ex(m).model \cup ey(m).model)])

\* tf.gather_nd(params, q, batch_dims=1): the leading dimension of params
\* and of the indices must be equal
gather_nd(params, q) ==
    IF params.err \/ q.err THEN Raised
    ELSE IF AxisLen(params.axis) # AxisLen(q.axis) THEN Raised
    ELSE Returned([m \in DOMAIN q.axis |->
             Entry(params.axis[m].input \cup q.axis[m].input,
                   params.axis[m].model \cup q.axis[m].model)])

\* ProfileHMMEmitter.call: tf.matmul(inputs, self.B_transposed)
Emitter_call_models(inputs, k) == broadcast(inputs, Returned(CellAxis(k)))

\* viterbi_step without a mask: log_A_dense + gamma_prev, reduce_max, + b
viterbi_step_models(gamma_prev, emission_probs_i, k) ==
    broadcast(broadcast(Returned(CellAxis(k)), gamma_prev), emission_probs_i)

\* viterbi_dyn_prog: gamma_val after the iteration i of the loop
RECURSIVE viterbi_dyn_prog_models(_, _, _)
viterbi_dyn_prog_models(em, k, i) ==
    IF i = 0 THEN broadcast(Returned(CellAxis(k)), em)
    ELSE viterbi_step_models(viterbi_dyn_prog_models(em, k, i - 1), em, k)

\* viterbi_backtracking_step without a mask
viterbi_backtracking_step_models(q, gamma_state, k) ==
    broadcast(gather_nd(Returned(CellAxis(k)), q), gamma_state)

\* viterbi_backtracking: q after n iterations of the loop; every row of
\* gamma has the model axis of its last row
RECURSIVE viterbi_backtracking_models(_, _, _)
viterbi_backtracking_models(gam, k, n) ==
    IF n = 0 THEN gam
    ELSE viterbi_backtracking_step_models(
             viterbi_backtracking_models(gam, k, n - 1), gam, k)

\* viterbi on a batch of this shape: tf.one_hot and tf.cast keep the model
\* axis; the emission probabilities of a position are the emitter's
viterbi_models(shape, k) ==
    LET em == Emitter_call_models(Returned(BatchAxis(shape.num_model)), k)
        gam == viterbi_dyn_prog_models(em, k, shape.seq_len - 1)
    IN viterbi_backtracking_models(gam, k, shape.seq_len - 1)

\* forward_recursion on a batch of this shape: line 85 unpacks four
\* dimensions, line 91 reshapes the emission probabilities to
\* (num_model*b*parallel_factor, chunk_size, q) with the num_model of the
\* batch, and the recursion keeps their model axis
forward_recursion_models(shape, k, P) ==
    IF shape.rank # 4 THEN Raised
    ELSE LET em == Emitter_call_models(Returned(BatchAxis(shape.num_model)), k)
             chunk_size == shape.seq_len \div P
         IN IF em.err THEN Raised
            ELSE IF AxisLen(em.axis) * shape.b * shape.seq_len
                        # shape.num_model * shape.b * P * chunk_size
                 THEN Raised
            ELSE em

\* a call of viterbi on the batch
viterbi_models_call ==
    /\ inputs_shape # << >>
    /\ viterbi_ret = << >>
    /\ viterbi_ret' = << viterbi_models(inputs_shape, num_models) >>
    /\ UNCHANGED <<auxVars, viterbiVars, layerVars, decodeVars, num_models, inputs_shape,
                   forward_ret>>

\* a call of forward_recursion on the batch
forward_recursion_models_call ==
    /\ inputs_shape # << >>
    /\ forward_ret = << >>
    /\ forward_ret' =
           << forward_recursion_models(inputs_shape, num_models, parallel_factor) >>
    /\ UNCHANGED <<auxVars, viterbiVars, layerVars, decodeVars, num_models, inputs_shape,
                   viterbi_ret>>

\* a cell of at least two models, a layer on it and a batch of sequences
\* (rank 4) or of symbol ids (rank 3) with a model dimension of its own
ModelsInit ==
    /\ num_models \in 2..MaxModels
    /\ \E n \in 1..MaxModels, b \in 1..MaxBatch, L \in Lengths, r \in {3, 4} :
          inputs_shape = [num_model |-> n, b |-> b, seq_len |-> L, rank |-> r]
    /\ parallel_factor \in Factors
    /\ viterbi_ret = << >>
    /\ forward_ret = << >>
    /\ hmm_cell = << >>
    /\ sequences = << >>
    /\ mask_func = << >>
    /\ vpc = "idle"
    /\ vi = 0
    /\ gamma_val = << >>
    /\ gamma = << >>
    /\ vq = 0
    /\ state_seqs_max_lik = << >>
    /\ forward_out = << >>
    /\ backward_out = << >>
    /\ posterior_out = << >>
    /\ step_counter = 0
    /\ DecodeIdle
    /\ AuxIdle

ModelsNext ==
    \/ viterbi_models_call
    \/ forward_recursion_models_call

SpecModels == ModelsInit /\ [][ModelsNext]_vars

----------------------------------------------------------------------------
(* Viterbi.py: get_state_seqs_max_lik, and make_dataset of Training.py     *)

\* math.inf, and a finite crop length
math_inf == [finite |-> FALSE, len |-> 0]

CropLen(n) == [finite |-> TRUE, len |-> n]

Min(a, b) == IF a <= b THEN a ELSE b

\* ds.batch(batch_size) on the elements of indices in their order
Batches(idx, bs) ==
    [j \in 1..((Len(idx) + bs - 1) \div bs) |->
        SubSeq(idx, (j - 1) * bs + 1, Min(j * bs, Len(idx)))]

\* the parameters of make_dataset(indices, batch_generator, batch_size=512,
\* shuffle=True)
make_dataset_params == {"indices", "batch_generator", "batch_size", "shuffle"}

\* the mutant of make_dataset: a shuffled dataset is not repeated
make_dataset_no_repeat(idx, bs, shuffle, keywords) ==
    IF ~(keywords \subseteq make_dataset_params) THEN [err |-> TRUE]
    ELSE IF bs < 1 THEN [err |-> TRUE]
    ELSE [err |-> FALSE, batches |-> Batches(idx, bs), repeat |-> FALSE]

\* a call of make_dataset with these keywords: a keyword that is not a
\* parameter is a TypeError; ds.batch(0) is an error; with shuffle the
\* dataset is shuffled and repeated
make_dataset(idx, bs, shuffle, keywords) ==
    IF ~(keywords \subseteq make_dataset_params) THEN [err |-> TRUE]
    ELSE IF bs < 1 THEN [err |-> TRUE]
    ELSE [err |-> FALSE, batches |-> Batches(idx, bs), repeat |-> shuffle]

\* get_state_seqs_max_lik, lines 150-155: batch_size is divided by the
\* number of devices and the batch generator is set not to crop
get_state_seqs_max_lik_begin ==
    /\ dpc = "begin"
    /\ \E num_gpu \in 0..MaxGpu :
          LET num_devices == num_gpu + (IF num_gpu = 0 THEN 1 ELSE 0)
          IN batch_size' = batch_size \div num_devices
    /\ old_crop_long_seqs' = crop_long_seqs
    /\ crop_long_seqs' = math_inf
    /\ dpc' = "make_dataset"
    /\ UNCHANGED <<auxVars, viterbiVars, layerVars, shapeVars, seq_lens, indices, ds,
                   decode_ret, encoder, return_only_sequences>>

\* get_state_seqs_max_lik, lines 156-161: train.make_dataset is called
\* with shuffle, bucket_by_seq_length and model_lengths as keywords.  An
\* exception leaves the function at once: the statements after the call,
\* line 196 among them, are not run.
get_state_seqs_max_lik_make_dataset ==
    /\ dpc = "make_dataset"
    /\ LET r == make_dataset(indices, batch_size, FALSE,
                    {"shuffle", "bucket_by_seq_length", "model_lengths"})
       IN /\ dpc' = IF r.err THEN "raised" ELSE "decode"
          /\ ds' = IF r.err THEN ds ELSE r.batches
    /\ UNCHANGED <<auxVars, viterbiVars, layerVars, shapeVars, seq_lens, indices,
                   batch_size, crop_long_seqs, old_crop_long_seqs, decode_ret,
                   encoder, return_only_sequences>>

\* get_state_seqs_max_lik, lines 166-191, which a call reaches if
\* make_dataset returns: call_viterbi is defined only if an encoder is
\* given, call_viterbi_single always; the loop calls call_viterbi_single if
\* the batch generator has a true return_only_sequences and call_viterbi
\* otherwise
call_viterbi_selected(enc, ros) ==
    LET defined == IF enc # "None"
                   THEN {"call_viterbi", "call_viterbi_single"}
                   ELSE {"call_viterbi_single"}
        selected == IF ros = "True" THEN "call_viterbi_single"
                    ELSE "call_viterbi"
    IN [name |-> selected, defined |-> selected \in defined]

\* get_state_seqs_max_lik, lines 187-193, from batch b on: the paths of a
\* batch are written to the rows batch_indices of the array; a row holds
\* << >> or the sequence whose path was written to it; an index that is no
\* row of the array is an IndexError
RECURSIVE decode_loop(_, _, _)
decode_loop(arr, batches, b) ==
    IF b > Len(batches) THEN [err |-> FALSE, rows |-> arr]
    ELSE IF \E i \in DOMAIN batches[b] : batches[b][i] \notin DOMAIN arr
    THEN [err |-> TRUE]
    ELSE decode_loop([r \in DOMAIN arr |->
                         IF \E i \in DOMAIN batches[b] : batches[b][i] = r
                         THEN <<r>> ELSE arr[r]],
                     batches, b + 1)

\* a dataset, the indices of the sequences to decode, a batch size, a
\* batch generator that may crop and that has the attribute
\* return_only_sequences or not, and an encoder or None
DecodeInit ==
    /\ dpc = "begin"
    /\ seq_lens \in [0..(NumSeqs - 1) -> 1..MaxSeqLen]
    /\ \E S \in SUBSET (0..(NumSeqs - 1)) :
          /\ S # {}
          /\ indices \in {s \in [1..Cardinality(S) -> S] :
                             \A a, b \in DOMAIN s : a # b => s[a] # s[b]}
    /\ batch_size \in 1..MaxBatchSize
    /\ crop_long_seqs \in {math_inf} \cup {CropLen(n) : n \in 1..MaxSeqLen}
    /\ old_crop_long_seqs = math_inf
    /\ ds = << >>
    /\ decode_ret = << >>
    /\ encoder \in {"None", "encoder"}
    /\ return_only_sequences \in {"absent", "False", "True"}
    /\ ShapeIdle
    /\ hmm_cell = << >>
    /\ sequences = << >>
    /\ mask_func = << >>
    /\ vpc = "idle"
    /\ vi = 0
    /\ gamma_val = << >>
    /\ gamma = << >>
    /\ vq = 0
    /\ state_seqs_max_lik = << >>
    /\ parallel_factor = 1
    /\ forward_out = << >>
    /\ backward_out = << >>
    /\ posterior_out = << >>
    /\ step_counter = 0
    /\ AuxIdle

DecodeNext ==
    \/ get_state_seqs_max_lik_begin
    \/ get_state_seqs_max_lik_make_dataset

SpecDecode == DecodeInit /\ [][DecodeNext]_vars

----------------------------------------------------------------------------
(* The parameter snapshot.  The trainable kernels carry a version that a   *)
(* parameter update raises.  recurrent_init stores the matrices derived    *)
(* from the kernels in attributes of the cell (of its emitter and its      *)
(* transitioner); an engine reads the attributes.  For each attribute the  *)
(* model keeps the version of the kernels it was made from, and for each   *)
(* call the version of the kernels when it started and the versions it     *)
(* has read.                                                               *)

Engines ==
    {"forward_recursion", "backward_recursion", "state_posterior_log_probs",
     "get_state_seqs_max_lik", "plot_hmm"}

\* the mutant of recurrent_init: nothing is recomputed
recurrent_init_nothing(cell) == << >>

\* cell.recurrent_init(): the transitioner recomputes the transition
\* matrices, then ProfileHMMEmitter.recurrent_init sets self.B and
\* self.B_transposed
recurrent_init(cell) ==
    << <<"transitioner.recurrent_init", cell>>,
       <<"emitter.recurrent_init", cell>> >>

\* the statements of an engine that write or read the matrices, in order,
\* each with the cell it is about
Program(engine) ==
    CASE engine = "forward_recursion" ->
             recurrent_init("cell")
             \o << <<"emission_probs", "cell">>, <<"cell_call", "cell">>,
                   <<"cell_call", "cell">>, <<"return", "cell">> >>
      [] engine = "backward_recursion" ->
             recurrent_init("reverse_cell")
             \o << <<"emission_probs", "reverse_cell">>,
                   <<"cell_call", "reverse_cell">>,
                   <<"cell_call", "reverse_cell">>, <<"return", "cell">> >>
      [] engine = "state_posterior_log_probs" ->
             recurrent_init("cell") \o recurrent_init("reverse_cell")
             \o << <<"emission_probs", "cell">>, <<"cell_call", "cell">>,
                   <<"cell_call", "reverse_cell">>, <<"cell_call", "cell">>,
                   <<"cell_call", "reverse_cell">>, <<"return", "cell">> >>
      [] engine = "get_state_seqs_max_lik" ->
             recurrent_init("cell") \o << <<"make_dataset", "cell">> >>
      [] engine = "plot_hmm" ->
             recurrent_init("cell")
             \o << <<"emission_probs", "cell">>, <<"cell_call", "cell">>,
                   <<"cell_call", "cell">>, <<"return", "cell">> >>

NoCall == [engine |-> "none", pc |-> 0, start |-> 0, read |-> {}]

InProgress(c) ==
    calls[c].engine # "none" /\ calls[c].pc <= Len(Program(calls[c].engine))

\* the statement call c is at, and the cell the statement is about
At(c) ==
    IF InProgress(c) THEN Program(calls[c].engine)[calls[c].pc]
    ELSE <<"none", "none">>

\* call c has run its statement, in which it read matrices of the versions
\* given
Advance(c, versions) ==
    calls' = [calls EXCEPT ![c].pc = @ + 1, ![c].read = @ \cup versions]

\* an update of the kernels (a training step)
update_parameters ==
    /\ matrices # << >>
    /\ kernel < MaxUpdates
    /\ interleaved \/ \A c \in DOMAIN calls : ~InProgress(c)
    /\ kernel' = kernel + 1
    /\ UNCHANGED <<viterbiVars, layerVars, shapeVars, decodeVars, numericVars,
                   emitterVars, trainingVars,
                   matrices, calls, interleaved>>

\* an engine is called
call_begin ==
    /\ matrices # << >>
    /\ \E c \in DOMAIN calls, engine \in Engines :
          /\ ~InProgress(c)
          /\ interleaved \/ \A d \in DOMAIN calls : ~InProgress(d)
          /\ calls' = [calls EXCEPT ![c] =
                 [engine |-> engine, pc |-> 1, start |-> kernel, read |-> {}]]
    /\ UNCHANGED <<viterbiVars, layerVars, shapeVars, decodeVars, numericVars,
                   emitterVars, trainingVars,
                   kernel, matrices, interleaved>>

\* recurrent_init of the cell: the transition matrices are made from the
\* kernels
transitioner_recurrent_init ==
    /\ \E c \in DOMAIN calls :
          /\ At(c)[1] = "transitioner.recurrent_init"
          /\ matrices' = [matrices EXCEPT ![At(c)[2]].A = kernel]
          /\ Advance(c, {})
    /\ UNCHANGED <<viterbiVars, layerVars, shapeVars, decodeVars, numericVars,
                   emitterVars, trainingVars,
                   kernel, interleaved>>

\* ProfileHMMEmitter.recurrent_init: self.B = self.make_B() and
\* self.B_transposed = tf.transpose(self.B, [0,2,1])
emitter_recurrent_init ==
    /\ \E c \in DOMAIN calls :
          /\ At(c)[1] = "emitter.recurrent_init"
          /\ matrices' = [matrices EXCEPT ![At(c)[2]].B = kernel,
                                          ![At(c)[2]].B_transposed = kernel]
          /\ Advance(c, {})
    /\ UNCHANGED <<viterbiVars, layerVars, shapeVars, decodeVars, numericVars,
                   emitterVars, trainingVars,
                   kernel, interleaved>>

\* cell.emission_probs: ProfileHMMEmitter.call reads self.B_transposed
emitter_call_read ==
    /\ \E c \in DOMAIN calls :
          /\ At(c)[1] = "emission_probs"
          /\ Advance(c, {matrices[At(c)[2]].B_transposed})
    /\ UNCHANGED <<viterbiVars, layerVars, shapeVars, decodeVars, numericVars,
                   emitterVars, trainingVars,
                   kernel, matrices, interleaved>>

\* a step of the cell, or of viterbi, reads the transition matrices
cell_call_read ==
    /\ \E c \in DOMAIN calls :
          /\ At(c)[1] = "cell_call"
          /\ Advance(c, {matrices[At(c)[2]].A})
    /\ UNCHANGED <<viterbiVars, layerVars, shapeVars, decodeVars, numericVars,
                   emitterVars, trainingVars,
                   kernel, matrices, interleaved>>

\* get_state_seqs_max_lik, lines 156-161: make_dataset raises and the call
\* ends before viterbi is called
make_dataset_raises ==
    /\ \E c \in DOMAIN calls :
          /\ At(c)[1] = "make_dataset"
          /\ make_dataset(<<0>>, 1, FALSE,
                 {"shuffle", "bucket_by_seq_length", "model_lengths"}).err
          /\ Advance(c, {})
    /\ UNCHANGED <<viterbiVars, layerVars, shapeVars, decodeVars, numericVars,
                   emitterVars, trainingVars,
                   kernel, matrices, interleaved>>

\* the engine returns
call_return ==
    /\ \E c \in DOMAIN calls :
          /\ At(c)[1] = "return"
          /\ Advance(c, {})
    /\ UNCHANGED <<viterbiVars, layerVars, shapeVars, decodeVars, numericVars,
                   emitterVars, trainingVars,
                   kernel, matrices, interleaved>>

\* a built layer whose matrices were made from the first kernels; the
\* calls and updates come one after the other, or interleaved
RefreshInit ==
    /\ kernel = 0
    /\ interleaved \in BOOLEAN
    /\ matrices = [cell \in {"cell", "reverse_cell"} |->
                      [A |-> 0, B |-> 0, B_transposed |-> 0]]
    /\ calls = [c \in 1..MaxCalls |-> NoCall]
    /\ EnginesIdle
    /\ ShapeIdle
    /\ DecodeIdle
    /\ NumericIdle
    /\ EmitterIdle
    /\ TrainingIdle

RefreshNext ==
    \/ update_parameters
    \/ call_begin
    \/ transitioner_recurrent_init
    \/ emitter_recurrent_init
    \/ emitter_call_read
    \/ cell_call_read
    \/ make_dataset_raises
    \/ call_return

\* parameter updates and engine calls, one after the other or interleaved
SpecRefresh == RefreshInit /\ [][RefreshNext]_vars

----------------------------------------------------------------------------
(* safe_log on float32 values and MsaHmmLayer.compute_prior.  A float32    *)
(* value that is not negative is <<0, 0>> (zero) or <<1, e>> (2^e); a      *)
(* logarithm is in units of log 2, as in the rest of the model.            *)

\* the float32 values given to safe_log: zero, the smallest positive value,
\* the values around tiny, around 1, and the largest power of two
Float32Values ==
    {<<0, 0>>}
    \cup {<<1, e>> : e \in {LogTiny - MantissaBits, LogTiny - 1, LogTiny,
                            LogTiny + 1, -1, 0, 1, 1 - LogTiny}}

\* the tensors of n values from S
TensorsOf(S, n) == [0..(n - 1) -> S]

\* safe_log(x), lines 13-16, element by element on float32 values:
\* tf.maximum(x, epsilon) is 2^-126 for every x below it
safe_log_float32(x) ==
    [i \in DOMAIN x |->
        LET log_x == IF x[i][1] = 0 \/ x[i][2] < LogTiny THEN LogTiny
                     ELSE x[i][2]
            zero_mask == IF x[i] = <<0, 0>> THEN 1 ELSE 0
        IN (1 - zero_mask) * log_x + zero_mask * log_zero_val]

\* compute_prior, lines 271-276: the mean of the prior log densities of
\* the models as the pair <<numerator, denominator>>, divided by the sum of
\* the sequence weights (weight_sum, line 31) if there are weights and by
\* num_seqs otherwise if it is given
compute_prior(density, n_seqs, weights) ==
    LET n == Cardinality(DOMAIN density)
        prior == <<SumTo(density, n), n>>
    IN IF weights # << >>
       THEN <<prior[1],
              prior[2] * SumTo(weights[1], Cardinality(DOMAIN weights[1]))>>
       ELSE IF n_seqs # << >>
       THEN <<prior[1], prior[2] * n_seqs[1]>>
       ELSE prior

\* safe_log is called on the tensor
safe_log_call ==
    /\ safe_log_x # << >>
    /\ safe_log_ret = << >>
    /\ safe_log_ret' = << safe_log_float32(safe_log_x[1]) >>
    /\ UNCHANGED <<viterbiVars, layerVars, shapeVars, decodeVars, refreshVars,
                   emitterVars, trainingVars,
                   safe_log_x, num_seqs, sequence_weights, prior_log_density,
                   prior_ret>>

\* compute_prior is called on the layer
compute_prior_call ==
    /\ prior_log_density # << >>
    /\ prior_ret = << >>
    /\ prior_ret' =
           << compute_prior(prior_log_density[1], num_seqs, sequence_weights) >>
    /\ UNCHANGED <<viterbiVars, layerVars, shapeVars, decodeVars, refreshVars,
                   emitterVars, trainingVars,
                   safe_log_x, safe_log_ret, num_seqs, sequence_weights,
                   prior_log_density>>

\* either a tensor for safe_log, or a layer made with or without num_seqs
\* and sequence_weights on a cell whose models have a prior log density
NumericInit ==
    /\ \/ /\ \E n \in 1..MaxTensorLen :
                \E x \in TensorsOf(Float32Values, n) : safe_log_x = <<x>>
          /\ num_seqs = << >>
          /\ sequence_weights = << >>
          /\ prior_log_density = << >>
       \/ /\ safe_log_x = << >>
          /\ num_seqs \in {<< >>} \cup {<<n>> : n \in 1..MaxNumSeqs}
          /\ \/ sequence_weights = << >>
             \/ \E n \in 1..MaxNumSeqs :
                   \E w \in TensorsOf(1..MaxWeight, n) : sequence_weights = <<w>>
          /\ \E n \in 1..MaxModels :
                \E d \in TensorsOf((0 - MaxDensity)..0, n) :
                    prior_log_density = <<d>>
    /\ safe_log_ret = << >>
    /\ prior_ret = << >>
    /\ EnginesIdle
    /\ ShapeIdle
    /\ DecodeIdle
    /\ RefreshIdle
    /\ EmitterIdle
    /\ TrainingIdle

NumericNext ==
    \/ safe_log_call
    \/ compute_prior_call

SpecNumeric == NumericInit /\ [][NumericNext]_vars

----------------------------------------------------------------------------
(* Emitter.py: the emission matrices of ProfileHMMEmitter.  A kernel holds *)
(* logits; the model keeps the weight exp(logit) of each, a positive       *)
(* integer, and draws rows whose softmax is a multiple of 1 / One.         *)

\* the number of states of a model of this length (MsaHmmCell.num_states)
num_states(len) == 2 * len + 3

\* tf.nn.softmax over the last axis: each row is divided by its sum
softmax(emissions) ==
    [q \in DOMAIN emissions |->
        [c \in DOMAIN emissions[q] |->
            (emissions[q][c] * One)
                \div SumTo(emissions[q], Cardinality(DOMAIN emissions[q]))]]

\* the mutant of make_default_emission_matrix: the column of the terminal
\* symbol is appended, with logit 0, before the softmax
make_default_emission_matrix_softmax_last(em, ins, len) ==
    LET s == Cardinality(DOMAIN em[0])
        emissions == [q \in 0..(2 * len + 1) |->
                         [c \in 0..s |->
                             IF c = s THEN 1
                             ELSE IF q >= 1 /\ q <= len THEN em[q - 1][c]
                             ELSE ins[c]]]
        probs == softmax(emissions)
    IN [q \in 0..(2 * len + 2) |->
           IF q <= 2 * len + 1 THEN probs[q]
           ELSE [c \in 0..s |-> one_hot(s, s + 1)[c] * One]]

\* make_default_emission_matrix, lines 103-121: the insertion kernel, the
\* rows of the emission kernel and length + 1 more copies of the insertion
\* kernel go through the softmax, get a column of zeros for the terminal
\* symbol, and the one-hot row of the terminal symbol is appended
make_default_emission_matrix(em, ins, len) ==
    LET s == Cardinality(DOMAIN em[0])
        emissions == [q \in 0..(2 * len + 1) |->
                         IF q >= 1 /\ q <= len THEN em[q - 1] ELSE ins]
        probs == softmax(emissions)
    IN [q \in 0..(2 * len + 2) |->
           IF q <= 2 * len + 1
           THEN [c \in 0..s |-> IF c < s THEN probs[q][c] ELSE 0]
           ELSE [c \in 0..s |-> one_hot(s, s + 1)[c] * One]]

\* ProfileHMMEmitter.make_B, lines 66-74, as recurrent_init stores it in
\* self.B: the matrix of each model is padded to max_num_states rows, the
\* largest number of states of a model of the cell, and the matrices are
\* stacked
emitter_make_B ==
    /\ length # << >>
    /\ B = << >>
    /\ LET k == Cardinality(DOMAIN length)
           max_num_states ==
               reduce_max([i \in 0..(k - 1) |-> num_states(length[i])], k)
       IN B' = << [i \in 0..(k - 1) |->
                    make_B(make_default_emission_matrix(
                               emission_kernel[i], insertion_kernel[i],
                               length[i]),
                           Cardinality(DOMAIN make_default_emission_matrix(
                               emission_kernel[i], insertion_kernel[i],
                               length[i])),
                           max_num_states)] >>
    /\ UNCHANGED <<viterbiVars, layerVars, shapeVars, decodeVars, refreshVars,
                   numericVars, trainingVars, length, emission_kernel,
                   insertion_kernel>>

\* an emitter of one or more models, each with its length, its emission
\* kernel of length rows and its insertion kernel, as build makes them
EmitterInit ==
    /\ LET Rows == {r \in [0..(AlphabetSize - 1) -> 1..MaxKernelWeight] :
                       \A c \in 0..(AlphabetSize - 1) :
                           (One * r[c]) % SumTo(r, AlphabetSize) = 0}
       IN \E k \in 1..MaxEmitterModels :
             /\ length \in [0..(k - 1) -> 1..MaxModelLength]
             /\ emission_kernel \in
                    [0..(k - 1) ->
                        UNION {[0..(n - 1) -> Rows] : n \in 1..MaxModelLength}]
             /\ \A i \in 0..(k - 1) :
                    DOMAIN emission_kernel[i] = 0..(length[i] - 1)
             /\ insertion_kernel \in [0..(k - 1) -> Rows]
    /\ B = << >>
    /\ EnginesIdle
    /\ ShapeIdle
    /\ DecodeIdle
    /\ RefreshIdle
    /\ NumericIdle
    /\ TrainingIdle

SpecEmitter == EmitterInit /\ [][emitter_make_B]_vars

----------------------------------------------------------------------------
(* Training.py: DefaultBatchGenerator, the datasets of make_dataset and    *)
(* the steps of fit_model.  A shuffled dataset is followed by the set of   *)
(* elements its current pass has not yet given out: the shuffle buffer     *)
(* holds the whole pass, so every order of a pass can come out, and        *)
(* repeat() starts the next pass when one is used up.                      *)

\* the mutant of DefaultBatchGenerator: the batch is as wide as its longest
\* sequence
DefaultBatchGenerator_no_terminal(fasta, seqlens, idx) ==
    LET k == Len(idx)
        max_len == reduce_max([i \in 0..(k - 1) |-> seqlens[idx[i + 1]]], k)
    IN [i \in 0..(k - 1) |->
           [pos \in 0..(max_len - 1) |->
               IF pos < seqlens[idx[i + 1]] THEN fasta[idx[i + 1]][pos]
               ELSE AlphabetSize]]

\* DefaultBatchGenerator.__call__, lines 88-93: a batch of max_len + 1
\* columns filled with alphabet_size, whose row i starts with the raw
\* sequence indices[i]
DefaultBatchGenerator(fasta, seqlens, idx) ==
    LET k == Len(idx)
        max_len == reduce_max([i \in 0..(k - 1) |-> seqlens[idx[i + 1]]], k)
    IN [i \in 0..(k - 1) |->
           [pos \in 0..max_len |->
               IF pos < seqlens[idx[i + 1]] THEN fasta[idx[i + 1]][pos]
               ELSE AlphabetSize]]

\* viterbi, lines 118-119 and 125: the sequence is one-hot encoded with
\* depth dim and seq_lens counts the positions whose last channel is 0
viterbi_seq_lens(seq, dim) ==
    Cardinality({pos \in DOMAIN seq : one_hot(seq[pos], dim)[dim - 1] = 0})

\* fit_model, line 170: steps = max(10, int(100*np.sqrt(n)/batch_size)),
\* the square root taken exactly
fit_steps(n, bs) ==
    LET k == CHOOSE j \in 0..(100 * n) :
                 /\ (j * bs) * (j * bs) <= 10000 * n
                 /\ 10000 * n < ((j + 1) * bs) * ((j + 1) * bs)
    IN IF k > 10 THEN k ELSE 10

\* the batch generator is called on a batch of indices
batch_generator_call ==
    /\ fasta_file # << >>
    /\ batch = << >>
    /\ batch' = << [batch |-> DefaultBatchGenerator(fasta_file, seq_lens,
                                                    indices),
                    indices |-> indices] >>
    /\ UNCHANGED <<viterbiVars, layerVars, shapeVars, decodeVars, refreshVars,
                   numericVars, emitterVars, fasta_file, dataset, yielded,
                   epochs, history>>

\* make_dataset is called on the indices, with shuffle=False or with
\* shuffle=True
make_dataset_call ==
    /\ fasta_file = << >>
    /\ epochs = << >>
    /\ batch_size >= 1
    /\ dataset = << >>
    /\ \E sh \in BOOLEAN :
          LET r == make_dataset(indices, batch_size, sh, {"shuffle"})
          IN dataset' = << [shuffle |-> sh, repeat |-> r.repeat,
                            batches |-> r.batches,
                            buffer |-> {indices[i] : i \in DOMAIN indices},
                            ended |-> FALSE] >>
    /\ UNCHANGED <<viterbiVars, layerVars, shapeVars, decodeVars, refreshVars,
                   numericVars, emitterVars, fasta_file, batch, yielded,
                   epochs, history>>

\* fit_model, lines 170-174: the steps of an epoch and the shuffled dataset
fit_model_begin ==
    /\ epochs # << >>
    /\ dataset = << >>
    /\ LET r == make_dataset(indices, batch_size, TRUE, {"shuffle"})
       IN dataset' = << [shuffle |-> TRUE, repeat |-> r.repeat,
                         batches |-> r.batches,
                         buffer |-> {indices[i] : i \in DOMAIN indices},
                         ended |-> FALSE] >>
    /\ history' = [steps |-> fit_steps(Len(indices), batch_size),
                   epoch |-> 0, step |-> 0, drawn |-> 0, stopped |-> FALSE]
    /\ UNCHANGED <<viterbiVars, layerVars, shapeVars, decodeVars, refreshVars,
                   numericVars, emitterVars, fasta_file, batch, yielded,
                   epochs>>

\* the next element of the dataset is asked for, by a loop over the dataset
\* or by model.fit for one step (lines 178-182: epochs epochs of
\* steps_per_epoch steps).  A dataset that is not repeated gives its
\* batches in order and then ends; a repeated one takes batch_size
\* elements from the shuffled passes.
dataset_next ==
    /\ dataset # << >>
    /\ ~dataset[1].ended
    /\ epochs # << >> =>
          /\ ~history.stopped
          /\ history.epoch < epochs[1]
    /\ IF dataset[1].repeat
       THEN LET elems == {indices[i] : i \in DOMAIN indices}
                n == Cardinality(elems)
                c == n - Cardinality(dataset[1].buffer) + batch_size
            IN /\ \E rest \in SUBSET elems :
                     /\ Cardinality(rest) = n - (c % n)
                     /\ c < n => rest \subseteq dataset[1].buffer
                     /\ dataset' = << [dataset[1] EXCEPT !.buffer = rest] >>
               /\ UNCHANGED yielded
       ELSE IF Len(yielded) < Len(dataset[1].batches)
       THEN /\ yielded' =
                   Append(yielded, dataset[1].batches[Len(yielded) + 1])
            /\ UNCHANGED dataset
       ELSE /\ dataset' = << [dataset[1] EXCEPT !.ended = TRUE] >>
            /\ UNCHANGED yielded
    /\ history' =
           IF epochs = << >> \/ dataset'[1].ended THEN history
           ELSE IF history.step + 1 = history.steps
           THEN [history EXCEPT !.epoch = @ + 1, !.step = 0, !.drawn = @ + 1]
           ELSE [history EXCEPT !.step = @ + 1, !.drawn = @ + 1]
    /\ UNCHANGED <<viterbiVars, layerVars, shapeVars, decodeVars, refreshVars,
                   numericVars, emitterVars, fasta_file, batch, epochs>>

\* fit_model, lines 175-177: TerminateOnNaN or EarlyStopping ends the
\* training before the last epoch
fit_callbacks_stop ==
    /\ epochs # << >>
    /\ dataset # << >>
    /\ ~history.stopped
    /\ history.epoch < epochs[1]
    /\ history' = [history EXCEPT !.stopped = TRUE]
    /\ UNCHANGED <<viterbiVars, layerVars, shapeVars, decodeVars, refreshVars,
                   numericVars, emitterVars, fasta_file, batch, dataset,
                   yielded, epochs>>

\* some indices of the sequences, with either the raw sequences for the
\* batch generator, or a batch size for make_dataset, or a batch size and
\* a number of epochs for fit_model
TrainingInit ==
    /\ \E S \in SUBSET (0..(NumSeqs - 1)) :
          /\ S # {}
          /\ indices \in {s \in [1..Cardinality(S) -> S] :
                             \A a, b \in DOMAIN s : a # b => s[a] # s[b]}
    /\ \/ /\ fasta_file \in
                 [0..(NumSeqs - 1) ->
                     UNION {[0..(n - 1) -> 0..(AlphabetSize - 1)] :
                               n \in 1..MaxSeqLen}]
          /\ seq_lens = [j \in 0..(NumSeqs - 1) |->
                            Cardinality(DOMAIN fasta_file[j])]
          /\ batch_size = 0
          /\ epochs = << >>
       \/ /\ fasta_file = << >>
          /\ seq_lens = << >>
          /\ batch_size \in 1..MaxBatchSize
          /\ epochs = << >>
       \/ /\ fasta_file = << >>
          /\ seq_lens = << >>
          /\ batch_size \in {b * f : b \in 1..MaxBatchSize, f \in {1, LargeBatch}}
          /\ epochs \in {<<e>> : e \in 1..MaxEpochs}
    /\ batch = << >>
    /\ dataset = << >>
    /\ yielded = << >>
    /\ history = << >>
    /\ dpc = "idle"
    /\ crop_long_seqs = << >>
    /\ old_crop_long_seqs = << >>
    /\ ds = << >>
    /\ decode_ret = << >>
    /\ encoder = << >>
    /\ return_only_sequences = << >>
    /\ EnginesIdle
    /\ ShapeIdle
    /\ RefreshIdle
    /\ NumericIdle
    /\ EmitterIdle

TrainingNext ==
    \/ batch_generator_call
    \/ make_dataset_call
    \/ fit_model_begin
    \/ dataset_next
    \/ fit_callbacks_stop

SpecTraining == TrainingInit /\ [][TrainingNext]_vars

----------------------------------------------------------------------------
(* Claims about viterbi *)

\* the total score of a state path: the log initial weight of its first
\* state, the log emission weight at every position and the log transition
\* weight between every two consecutive states
PathScore(path, seqs, cell) ==
    LET L == Cardinality(DOMAIN seqs)
        em == emission_probs(seqs, cell)
    IN safe_log(cell.init_dist[path[0]])
       + SumTo([i \in 0..(L - 1) |-> safe_log(em[i][path[i]])], L)
       + SumTo([i \in 0..(L - 1) |->
                   IF i = 0 THEN 0
                   ELSE log_A_dense(cell)[path[i - 1]][path[i]]], L)

\* C1: without a transition mask, the total score of the state path that
\* viterbi returns equals the maximum over the states q of gamma[L-1][q]
C1_ViterbiOptimality ==
    (vpc = "done" /\ mask_func = << >>) =>
        PathScore(state_seqs_max_lik, sequences, hmm_cell)
            = reduce_max(gamma[SeqLen - 1], hmm_cell.max_num_states)

\* a decoded path of the longest length that changes state and has a
\* positive probability
C1_Witness ==
    /\ vpc = "done"
    /\ mask_func = << >>
    /\ SeqLen = MaxLen
    /\ \E i \in 1..(SeqLen - 1) :
          state_seqs_max_lik[i] # state_seqs_max_lik[i - 1]
    /\ \A i \in 0..(SeqLen - 1) : \A q \in DOMAIN gamma[i] :
          gamma[i][q] > log_zero_val
    /\ \E q \in DOMAIN gamma[SeqLen - 1] :
          gamma[SeqLen - 1][q] # gamma[SeqLen - 1][0]

\* the known path p has a nonzero probability: a nonzero initial weight of
\* p[0], a nonzero emission weight of p[i] at every position and a nonzero
\* transition weight p[i-1] -> p[i]
PathPositive(path, seqs, cell) ==
    LET L == Cardinality(DOMAIN seqs)
        em == emission_probs(seqs, cell)
    IN /\ cell.init_dist[path[0]] > 0
       /\ \A i \in 0..(L - 1) : em[i][path[i]] > 0
       /\ \A i \in 1..(L - 1) : cell.A[path[i - 1]][path[i]] > 0

\* C4 as claimed: with a mask that allows only the transitions of a known
\* path p, viterbi returns p, for every model, emission table and length
C4_MaskReturnsPath_Original ==
    (vpc = "done" /\ mask_func # << >>) => state_seqs_max_lik = mask_func[1]

\* C4 amended: viterbi returns the known path p when L >= 2 and p has a
\* nonzero probability under the model; and at every position i >= 1 every
\* state other than p[i] is entered by forbidden transitions only, each of
\* which contributes the finite sentinel log_zero_val to gamma[i]
C4_MaskReturnsPath ==
    /\ (/\ vpc = "done"
        /\ mask_func # << >>
        /\ SeqLen >= 2
        /\ PathPositive(mask_func[1], sequences, hmm_cell))
           => state_seqs_max_lik = mask_func[1]
    /\ mask_func # << >> =>
          \A i \in (DOMAIN gamma) \ {0} :
             \A q \in 0..(hmm_cell.max_num_states - 1) :
                q # mask_func[1][i] =>
                   gamma[i][q] =
                       reduce_max([qp \in 0..(hmm_cell.max_num_states - 1) |->
                                      log_A_dense(hmm_cell)[qp][q]
                                      + gamma[i - 1][qp]],
                                  hmm_cell.max_num_states)
                       + log_zero_val
                       + safe_log(emission_probs(sequences, hmm_cell)[i][q])

\* a masked decoding of the longest length whose known path changes state,
\* has a nonzero probability and is not the path decoded without the mask
C4_Witness ==
    /\ vpc = "done"
    /\ mask_func # << >>
    /\ SeqLen = MaxLen
    /\ PathPositive(mask_func[1], sequences, hmm_cell)
    /\ state_seqs_max_lik = mask_func[1]
    /\ \E i \in 1..(SeqLen - 1) : mask_func[1][i] # mask_func[1][i - 1]
    /\ \E i \in 0..(SeqLen - 1) :
          gamma[i][mask_func[1][i]] > log_zero_val
          /\ \E q \in DOMAIN gamma[i] :
                q # mask_func[1][i] /\ gamma[i][q] > 2 * log_zero_val

\* C5: no position of the path that viterbi decodes holds a padding state
\* id, an id >= num_states of the model
C5_NoPaddingState ==
    \A i \in DOMAIN state_seqs_max_lik :
        state_seqs_max_lik[i] < hmm_cell.num_states

\* a finished decoding under a padded model in which the padding state
\* ties with the best real state at the last position
C5_Witness ==
    /\ vpc = "done"
    /\ hmm_cell.max_num_states > hmm_cell.num_states
    /\ SeqLen = MaxLen
    /\ gamma[SeqLen - 1][hmm_cell.max_num_states - 1]
           = reduce_max(gamma[SeqLen - 1], hmm_cell.max_num_states)

\* the value that backtracking maximises over the predecessors qp of the
\* state qn decoded at position i + 1
BacktrackCandidate(i, qp, qn) ==
    log_A_dense(hmm_cell)[qp][qn] + gamma[i][qp]
    + (IF mask_func # << >>
       THEN safe_log(MaskAt(mask_func, i + 1, hmm_cell)[1][qp][qn]) ELSE 0)

\* C9: the state decoded at the last position is the lowest id among the
\* maxima of gamma[L-1], and the state decoded at every earlier position
\* is the lowest id among the maxima of that backtracking step
C9_LowestIdWinsTies ==
    \A i \in DOMAIN state_seqs_max_lik :
        \A q \in 0..(hmm_cell.max_num_states - 1) :
            IF i = SeqLen - 1
            THEN /\ gamma[i][q] <= gamma[i][state_seqs_max_lik[i]]
                 /\ q < state_seqs_max_lik[i] =>
                        gamma[i][q] < gamma[i][state_seqs_max_lik[i]]
            ELSE /\ BacktrackCandidate(i, q, state_seqs_max_lik[i + 1])
                      <= BacktrackCandidate(i, state_seqs_max_lik[i],
                                            state_seqs_max_lik[i + 1])
                 /\ q < state_seqs_max_lik[i] =>
                        BacktrackCandidate(i, q, state_seqs_max_lik[i + 1])
                          < BacktrackCandidate(i, state_seqs_max_lik[i],
                                               state_seqs_max_lik[i + 1])

\* a finished decoding of the longest length with two states tied for the
\* maximum in the final argmax and in a backtracking step
C9_Witness ==
    /\ vpc = "done"
    /\ SeqLen = MaxLen
    /\ hmm_cell.max_num_states = hmm_cell.num_states
    /\ \E q \in 0..(hmm_cell.max_num_states - 1) :
          /\ q # state_seqs_max_lik[SeqLen - 1]
          /\ gamma[SeqLen - 1][q]
                = gamma[SeqLen - 1][state_seqs_max_lik[SeqLen - 1]]
          /\ gamma[SeqLen - 1][q] > 2 * log_zero_val
    /\ \E i \in 0..(SeqLen - 2) :
          \E q \in 0..(hmm_cell.max_num_states - 1) :
             /\ q # state_seqs_max_lik[i]
             /\ BacktrackCandidate(i, q, state_seqs_max_lik[i + 1])
                  = BacktrackCandidate(i, state_seqs_max_lik[i],
                                       state_seqs_max_lik[i + 1])
             /\ BacktrackCandidate(i, q, state_seqs_max_lik[i + 1])
                  > 2 * log_zero_val

----------------------------------------------------------------------------
(* Claims about MsaHmmLayer *)

\* the likelihood of the sequence under the cell, from the
\* position-by-position recursion
Likelihood == forward_recursion(sequences, hmm_cell, 1).loglik

\* C2: for every parallel_factor P that divides the length L,
\* forward_recursion with parallel_factor = P returns without error the
\* log-likelihood that forward_recursion with parallel_factor = 1 returns
C2_ChunkedLoglik ==
    (forward_out # << >> /\ SeqLen % parallel_factor = 0) =>
        /\ ~forward_out[1].err
        /\ forward_out[1].loglik = Likelihood

\* forward_recursion has composed the operators of several chunks of at
\* least two positions each, for a sequence the model can emit
C2_Witness ==
    /\ forward_out # << >>
    /\ parallel_factor > 1
    /\ SeqLen % parallel_factor = 0
    /\ SeqLen \div parallel_factor >= 2
    /\ ~forward_out[1].err
    /\ forward_out[1].loglik[1] > 0
    /\ forward_out[1].loglik # <<1, 1>>

\* C3: for every parallel_factor dividing the length and every position
\* i, the sum over the states q of forward(i, q) * backward(i, q) is the
\* likelihood of the sequence, and the posteriors that
\* state_posterior_log_probs returns are one vector over the states per
\* position that sums to 1
C3_PosteriorLink ==
    (SeqLen % parallel_factor = 0 /\ Likelihood[1] > 0) =>
        /\ (forward_out # << >> /\ backward_out # << >>) =>
              /\ ~forward_out[1].err
              /\ ~backward_out[1].err
              /\ \A i \in 0..(SeqLen - 1) :
                    RSum([q \in 0..(hmm_cell.max_num_states - 1) |->
                             RMul(forward_out[1].forward_result[i][q],
                                  backward_out[1].backward_result[i][q])],
                         hmm_cell.max_num_states) = Likelihood
        /\ (posterior_out # << >> /\ ~posterior_out[1].no_loglik) =>
              /\ ~posterior_out[1].result.err
              /\ \A i \in 0..(SeqLen - 1) :
                    /\ DOMAIN posterior_out[1].result.posterior[i]
                           = 0..(hmm_cell.max_num_states - 1)
                    /\ RSum(posterior_out[1].result.posterior[i],
                            hmm_cell.max_num_states) = <<1, 1>>

\* the cell without its padding states
Unpadded(cell) ==
    LET n == cell.num_states
    IN [ num_states |-> n,
         max_num_states |-> n,
         init_dist |-> [q \in 0..(n - 1) |-> cell.init_dist[q]],
         A |-> [qp \in 0..(n - 1) |-> [qn \in 0..(n - 1) |-> cell.A[qp][qn]]],
         B |-> [q \in 0..(n - 1) |-> cell.B[q]] ]

\* C6: with padding states added to the model, forward_recursion returns
\* the log-likelihood, state_posterior_log_probs the posteriors of the
\* real states and viterbi the path that they return for the model
\* without the padding states, for every parallel_factor
C6_PaddingInvariance ==
    LET real == Unpadded(hmm_cell)
    IN /\ forward_out # << >> =>
             LET r == forward_recursion(sequences, real, parallel_factor)
             IN /\ r.err = forward_out[1].err
                /\ ~r.err => r.loglik = forward_out[1].loglik
       /\ posterior_out # << >> =>
             LET r == state_posterior_log_probs(sequences, real, parallel_factor,
                                                posterior_out[1].no_loglik)
             IN /\ r.err = posterior_out[1].result.err
                /\ ~r.err =>
                      \A i \in 0..(SeqLen - 1) :
                          \A q \in 0..(hmm_cell.num_states - 1) :
                              r.posterior[i][q]
                                  = posterior_out[1].result.posterior[i][q]
       /\ state_seqs_max_lik # << >> =>
             state_seqs_max_lik = viterbi(sequences, real, mask_func)

\* C7: when parallel_factor does not divide the length (also when the
\* length is below parallel_factor), forward_recursion,
\* backward_recursion and state_posterior_log_probs end in an error and
\* return no result
C7_NonDivisibleIsError ==
    SeqLen % parallel_factor # 0 =>
        /\ forward_out # << >> => forward_out[1].err
        /\ backward_out # << >> => backward_out[1].err
        /\ posterior_out # << >> => posterior_out[1].result.err

\* the three functions have been called with a length above
\* parallel_factor that it does not divide
C7_Witness ==
    /\ SeqLen % parallel_factor # 0
    /\ SeqLen > parallel_factor
    /\ forward_out # << >>
    /\ backward_out # << >>
    /\ posterior_out # << >>

----------------------------------------------------------------------------
(* Claims about the model dimension *)

----------------------------------------------------------------------------
(* Claims about get_state_seqs_max_lik *)

\* C10: get_state_seqs_max_lik returns an array in which, for every
\* decoded sequence, every position at or beyond the true length of the
\* sequence holds the terminal state id num_states - 1, here of a model
\* of NumStates states
C10_TerminalFill ==
    dpc \in {"raised", "returned"} =>
        /\ decode_ret # << >>
        /\ \A j \in DOMAIN indices :
              \A pos \in DOMAIN decode_ret[1][j] :
                  pos >= seq_lens[indices[j]] =>
                      decode_ret[1][j][pos] = NumStates - 1

\* C26: for every array indices (any subset of the dataset, in any
\* order) get_state_seqs_max_lik returns an array of shape (num_models,
\* indices.size, L) whose row j holds the decoded path of the sequence
\* indices[j]; each batch is written to the rows of the sequences it
\* contains and no write falls outside the array
C26_RowsFollowIndices ==
    dpc \in {"raised", "returned"} =>
        LET r == decode_loop([j \in 0..(Len(indices) - 1) |-> << >>],
                             Batches(indices, batch_size), 1)
        IN /\ ~r.err
           /\ \A j \in DOMAIN indices : r.rows[j - 1] = <<indices[j]>>
           /\ decode_ret # << >>
           /\ DOMAIN decode_ret[1] = DOMAIN indices

\* C27: get_state_seqs_max_lik reverts the batch generator on every exit:
\* crop_long_seqs is math.inf while the batches are made and decoded, and
\* has its value from before the call once the call has ended, whether it
\* returned or ended in an error
C27_CropLongSeqsReverted ==
    /\ dpc \in {"make_dataset", "decode"} => crop_long_seqs = math_inf
    /\ dpc \in {"raised", "returned"} => crop_long_seqs = old_crop_long_seqs

\* C28: for every combination of an encoder or None and of a batch
\* generator with return_only_sequences true, false or absent, the decoding
\* function selected for a batch has been defined before the loop; every
\* batch is decoded and no call of an undefined function is reached
C28_DecodingFunctionDefined ==
    dpc \in {"raised", "returned"} =>
        /\ call_viterbi_selected(encoder, return_only_sequences).defined
        /\ decode_ret # << >>
        /\ dpc = "returned"

----------------------------------------------------------------------------
(* Claims about the parameter snapshot *)

\* C11: in a sequence of parameter updates and engine calls, no call reads
\* an emission or transition matrix made from kernels older than the
\* kernels in force when the call started
C11_NoStaleRead ==
    ~interleaved =>
        \A c \in DOMAIN calls : \A version \in calls[c].read :
            version >= calls[c].start

\* a call that started after a parameter update has read the emission matrix
\* and the transition matrices and has returned
C11_Witness ==
    /\ ~interleaved
    /\ \E c \in DOMAIN calls :
          /\ calls[c].engine \in {"plot_hmm", "state_posterior_log_probs"}
          /\ calls[c].start >= 1
          /\ calls[c].pc > Len(Program(calls[c].engine))
          /\ calls[c].read = {calls[c].start}

\* C12: when engine calls interleave with each other and with a parameter
\* update, all the matrices one call reads were made from one version of the
\* kernels
C12_SingleSnapshot ==
    interleaved =>
        \A c \in DOMAIN calls : Cardinality(calls[c].read) <= 1

----------------------------------------------------------------------------
(* Claims about the layer's state *)

\* C13: a call of forward_recursion, backward_recursion,
\* state_posterior_log_probs or viterbi leaves the step counter of the cell,
\* the cell and the parallel_factor of the layer as they were before the
\* call, for every input, chunks of 2 positions or fewer included
C13_CallsKeepCellState ==
    [][ /\ step_counter' = step_counter
        /\ hmm_cell' = hmm_cell
        /\ parallel_factor' = parallel_factor ]_vars

\* the backward variable of position i: the weight of the emissions after
\* position i given the state at position i, 1 at the last position
RECURSIVE backward_variable(_, _, _)
backward_variable(em, cell, i) ==
    LET q == cell.max_num_states
    IN IF i = Cardinality(DOMAIN em) - 1
       THEN Tensor([j \in 0..(q - 1) |-> RInt(1)])
       ELSE LET next == backward_variable(em, cell, i + 1)
            IN After(next, Tensor([j \in 0..(q - 1) |->
                   RSum(Tensor([k \in 0..(q - 1) |->
                            RMul(RInt(cell.A[j][k] * em[i + 1][k]), next[k])]), q)]))

\* C14: for parallel_factor = 1 and for every parallel_factor dividing the
\* length, the entry at index i of the tensor that backward_recursion
\* returns is the backward variable of position i of the input
C14_BackwardPositionOrder ==
    (backward_out # << >> /\ SeqLen % parallel_factor = 0) =>
        /\ ~backward_out[1].err
        /\ \A i \in 0..(SeqLen - 1) :
              backward_out[1].backward_result[i]
                  = backward_variable(emission_probs(sequences, hmm_cell),
                                      hmm_cell, i)

\* backward_recursion has returned for several chunks of at least two
\* positions, and the backward variables read last to first are not the
\* ones read first to last
C14_Witness ==
    /\ backward_out # << >>
    /\ parallel_factor > 1
    /\ SeqLen \div parallel_factor >= 2
    /\ SeqLen % parallel_factor = 0
    /\ ~backward_out[1].err
    /\ \A i \in 0..(SeqLen - 1) : \E j \in DOMAIN backward_out[1].backward_result[i] :
          backward_out[1].backward_result[i][j][1] > 0
    /\ \E i \in 0..(SeqLen - 1) :
          backward_out[1].backward_result[i]
              # backward_out[1].backward_result[SeqLen - 1 - i]

\* C15: the distribution that the chunked forward pass re-injects into
\* chunk j (entry j of T, made from the outputs of the Chunk Composer) is
\* the distribution before chunk j is applied: the initial distribution
\* for chunk 0 and, for j > 0, the forward vector of the last position
\* before the chunk, which the position-by-position recursion gives
C15_ComposerBeforeChunk ==
    (forward_out # << >> /\ parallel_factor > 1
        /\ SeqLen % parallel_factor = 0) =>
        /\ ~forward_out[1].err
        /\ \A j \in 0..(parallel_factor - 1) :
              forward_out[1].T[j + 1] =
                  IF j = 0
                  THEN [q \in 0..(hmm_cell.max_num_states - 1) |->
                           RInt(hmm_cell.init_dist[q])]
                  ELSE forward_recursion(sequences, hmm_cell, 1).forward_result[
                           j * (SeqLen \div parallel_factor) - 1]

\* three chunks of two positions whose entering distributions are not
\* zero and differ from each other
C15_Witness ==
    /\ forward_out # << >>
    /\ parallel_factor = MaxFactor
    /\ SeqLen = 2 * parallel_factor
    /\ ~forward_out[1].err
    /\ forward_out[1].loglik[1] > 0
    /\ \A j, k \in 1..parallel_factor :
          j # k => forward_out[1].T[j] # forward_out[1].T[k]

----------------------------------------------------------------------------
(* Claims about safe_log and compute_prior *)

\* C16: element by element, safe_log returns log_zero_val exactly where
\* x = 0 and the logarithm of x wherever x > 0
C16_SafeLogIsLog ==
    safe_log_ret # << >> =>
        \A i \in DOMAIN safe_log_x[1] :
            safe_log_ret[1][i] =
                IF safe_log_x[1][i] = <<0, 0>> THEN log_zero_val
                ELSE safe_log_x[1][i][2]

\* C18: if num_seqs is not provided, compute_prior returns the plain mean
\* of the prior log densities, for every setting of sequence_weights
C18_PriorNotNormalized ==
    (prior_ret # << >> /\ num_seqs = << >>) =>
        prior_ret[1][1] * Cardinality(DOMAIN prior_log_density[1])
            = SumTo(prior_log_density[1],
                    Cardinality(DOMAIN prior_log_density[1])) * prior_ret[1][2]

----------------------------------------------------------------------------
(* Claims about the shape of the posterior *)

\* C17: for every length and every parallel_factor dividing it, chunks of 1
\* and of 2 positions included, state_posterior_log_probs returns one vector
\* over the q states per position 0..L-1, in the order of the positions:
\* without the loglik, entry i is the forward vector of position i times
\* the backward variable of position i
C17_PosteriorPerPosition ==
    (posterior_out # << >> /\ SeqLen % parallel_factor = 0) =>
        /\ ~posterior_out[1].result.err
        /\ DOMAIN posterior_out[1].result.posterior = 0..(SeqLen - 1)
        /\ \A i \in 0..(SeqLen - 1) :
              /\ DOMAIN posterior_out[1].result.posterior[i]
                     = 0..(hmm_cell.max_num_states - 1)
              /\ posterior_out[1].no_loglik =>
                    posterior_out[1].result.posterior[i] =
                        row_add(forward_recursion(sequences, hmm_cell, 1)
                                    .forward_result[i],
                                backward_variable(
                                    emission_probs(sequences, hmm_cell),
                                    hmm_cell, i))

----------------------------------------------------------------------------
(* Claims about the two passes of viterbi *)

\* C19: at every step of the backtracking pass the predecessor chosen for
\* the state decoded at position i+1 attains the maximum that the max-plus
\* pass stored in gamma[i+1]: its candidate value log A + gamma[i] + the log
\* of the mask of index i+1, plus the log emission of position i+1, is
\* gamma[i+1] of the decoded state
C19_BacktrackAttainsMax ==
    \A i \in DOMAIN state_seqs_max_lik :
        (i + 1) \in DOMAIN state_seqs_max_lik =>
            BacktrackCandidate(i, state_seqs_max_lik[i],
                               state_seqs_max_lik[i + 1])
            + safe_log(emission_probs(sequences, hmm_cell)[i + 1][
                           state_seqs_max_lik[i + 1]])
                = gamma[i + 1][state_seqs_max_lik[i + 1]]

\* a decoding of the longest length under a mask that forbids the
\* predecessor the pass without the mask would choose at some step
C19_Witness ==
    /\ vpc = "done"
    /\ mask_func # << >>
    /\ SeqLen = MaxLen
    /\ \E i \in 0..(SeqLen - 2) :
          /\ state_seqs_max_lik[i] # state_seqs_max_lik[i + 1]
          /\ argmax([qp \in 0..(hmm_cell.max_num_states - 1) |->
                        log_A_dense(hmm_cell)[qp][state_seqs_max_lik[i + 1]]
                        + gamma[i][qp]], hmm_cell.max_num_states)
                 # state_seqs_max_lik[i]

----------------------------------------------------------------------------
(* Claims about the chunked forward pass *)

\* the operator of position t (counted from 1) of chunk c (counted from 1)
\* that forward_recursion computes from the emissions of chunk c alone
ChunkLocalOperator(c, t) ==
    chunk_operator(
        forward_chunk_pass(
            chunk_reshape(emission_probs(sequences, hmm_cell), SeqLen,
                          parallel_factor).chunks,
            hmm_cell, c - 1, parallel_factor).forward[t],
        hmm_cell.max_num_states)

\* the operator op marginalized over the entering state z weighted by the
\* distribution d
Marginalize(d, op) ==
    [j \in 0..(hmm_cell.max_num_states - 1) |->
        RSum([z \in 0..(hmm_cell.max_num_states - 1) |-> RMul(op[z][j], d[z])],
             hmm_cell.max_num_states)]

\* C20: in the chunked forward pass the distribution re-injected into
\* chunk 0 is the initial distribution and the one re-injected into chunk
\* j > 0 is the initial distribution composed with the operators of the
\* chunks 0..j-1; the forward vector of a position of chunk j is the
\* operator of the position marginalized over the entering state weighted
\* by that distribution, and it is the vector that the pass on the chunks
\* 0..j alone returns
C20_BoundaryFromEarlierChunks ==
    (forward_out # << >> /\ parallel_factor > 1
        /\ SeqLen % parallel_factor = 0) =>
        /\ ~forward_out[1].err
        /\ forward_out[1].T[1] =
               [q \in 0..(hmm_cell.max_num_states - 1) |->
                   RInt(hmm_cell.init_dist[q])]
        /\ \A j \in 1..(parallel_factor - 1) :
              forward_out[1].T[j + 1] =
                  Marginalize(forward_out[1].T[j],
                              ChunkLocalOperator(j, SeqLen \div parallel_factor))
        /\ \A i \in 0..(SeqLen - 1) :
              forward_out[1].forward_result[i] =
                  Marginalize(
                      forward_out[1].T[(i \div (SeqLen \div parallel_factor)) + 1],
                      ChunkLocalOperator(
                          (i \div (SeqLen \div parallel_factor)) + 1,
                          (i % (SeqLen \div parallel_factor)) + 1))
        /\ \A j \in 1..(parallel_factor - 1) :
              \A i \in 0..(j * (SeqLen \div parallel_factor) - 1) :
                  forward_out[1].forward_result[i] =
                      forward_recursion(
                          [k \in 0..(j * (SeqLen \div parallel_factor) - 1) |->
                              sequences[k]],
                          hmm_cell, j).forward_result[i]

\* the longest sequence in the most chunks: the distribution entering the
\* last chunk is not the one entering the chunk before it, and the forward
\* vector of the last position is not zero
C20_Witness ==
    /\ forward_out # << >>
    /\ parallel_factor = MaxFactor
    /\ SeqLen = MaxLayerLen
    /\ ~forward_out[1].err
    /\ forward_out[1].T[parallel_factor] # forward_out[1].T[parallel_factor - 1]
    /\ \E q \in 0..(hmm_cell.max_num_states - 1) :
          forward_out[1].forward_result[SeqLen - 1][q][1] > 0

----------------------------------------------------------------------------
(* Claims about the chunked backward pass *)

\* C21: in the chunked backward pass the distribution re-injected into the
\* last chunk is the initial distribution of the reverse cell (ones) and
\* the one re-injected into chunk j before it is the one of chunk j+1
\* composed with the operator of chunk j+1, so the composition of the
\* operators of the chunks after j only, from the last to the first; the
\* result of a position of chunk j is the operator of the position
\* marginalized over that distribution, and it is the result that the pass
\* on the chunks from j on alone returns
C21_BoundaryFromLaterChunks ==
    (backward_out # << >> /\ parallel_factor > 1
        /\ SeqLen % parallel_factor = 0) =>
        /\ ~backward_out[1].err
        /\ backward_out[1].T[parallel_factor] =
               [q \in 0..(hmm_cell.max_num_states - 1) |-> RInt(1)]
        /\ \A j \in 1..(parallel_factor - 1) :
              backward_out[1].T[j] =
                  Marginalize(
                      backward_out[1].T[j + 1],
                      chunk_operator(
                          Reverse(backward_chunk_pass(
                              chunk_reshape(emission_probs(sequences, hmm_cell),
                                            SeqLen, parallel_factor).chunks,
                              hmm_cell, j, parallel_factor))[1],
                          hmm_cell.max_num_states))
        /\ \A i \in 0..(SeqLen - 1) :
              backward_out[1].backward_result[i] =
                  Marginalize(
                      backward_out[1].T[(i \div (SeqLen \div parallel_factor)) + 1],
                      chunk_operator(
                          Reverse(backward_chunk_pass(
                              chunk_reshape(emission_probs(sequences, hmm_cell),
                                            SeqLen, parallel_factor).chunks,
                              hmm_cell, i \div (SeqLen \div parallel_factor),
                              parallel_factor))[
                                  (i % (SeqLen \div parallel_factor)) + 1],
                          hmm_cell.max_num_states))
        /\ \A j \in 1..(parallel_factor - 1) :
              \A i \in (j * (SeqLen \div parallel_factor))..(SeqLen - 1) :
                  backward_out[1].backward_result[i] =
                      backward_recursion(
                          [k \in 0..(SeqLen - 1
                                     - j * (SeqLen \div parallel_factor)) |->
                              sequences[k + j * (SeqLen \div parallel_factor)]],
                          hmm_cell, parallel_factor - j).backward_result[
                              i - j * (SeqLen \div parallel_factor)]

\* the longest sequence in the most chunks: the distribution re-injected
\* into the first chunk is not the one of the chunk after it, and neither
\* is the initial distribution of the reverse cell
C21_Witness ==
    /\ backward_out # << >>
    /\ parallel_factor = MaxFactor
    /\ SeqLen = MaxLayerLen
    /\ ~backward_out[1].err
    /\ backward_out[1].T[1] # backward_out[1].T[2]
    /\ backward_out[1].T[2] # backward_out[1].T[parallel_factor]
    /\ \E q \in 0..(hmm_cell.max_num_states - 1) : backward_out[1].T[1][q][1] > 0

----------------------------------------------------------------------------
(* Claims about the pairing of the two passes in the posterior *)

\* C22: in state_posterior_log_probs, for chunks of at least 2 positions,
\* the forward value of every position i is combined with the backward
\* value of the same position i: the result is the one made, position by
\* position, from what forward_recursion and backward_recursion return for
\* the same input and parallel_factor
C22_SamePositionPaired ==
    (/\ posterior_out # << >>
     /\ SeqLen % parallel_factor = 0
     /\ SeqLen \div parallel_factor >= 2) =>
        posterior_out[1].result =
            posterior_of_totals(
                forward_recursion(sequences, hmm_cell, parallel_factor),
                backward_recursion(sequences, hmm_cell, parallel_factor),
                posterior_out[1].no_loglik)

\* a posterior over chunks with a first, an interior and a last position,
\* for a sequence the model can emit, whose first and last rows differ
C22_Witness ==
    /\ posterior_out # << >>
    /\ SeqLen % parallel_factor = 0
    /\ SeqLen \div parallel_factor >= 3
    /\ parallel_factor > 1
    /\ ~posterior_out[1].result.err
    /\ \A i \in 0..(SeqLen - 1) :
          \E q \in 0..(hmm_cell.max_num_states - 1) :
              posterior_out[1].result.posterior[i][q][1] > 0
    /\ posterior_out[1].result.posterior[0]
           # posterior_out[1].result.posterior[SeqLen - 1]


----------------------------------------------------------------------------
(* Claims about the emission matrices *)

\* C23: for every model length n, make_default_emission_matrix returns
\* 2n+3 rows over s+1 symbols; every row sums to 1; the terminal symbol
\* (the last column) has probability 0 in every row but the last; the last
\* row, of state 2n+2, has probability 1 on the terminal symbol and 0 on
\* every other symbol; 2n+2 is num_states - 1, the id that
\* get_state_seqs_max_lik fills undecoded positions with
C23_DefaultEmissionMatrix ==
    B # << >> =>
        \A i \in DOMAIN length :
            LET n == length[i]
                em_mat == make_default_emission_matrix(
                              emission_kernel[i], insertion_kernel[i], n)
                terminal == num_states(n) - 1
            IN /\ DOMAIN em_mat = 0..(2 * n + 2)
               /\ terminal = 2 * n + 2
               /\ \A q \in DOMAIN em_mat :
                      /\ DOMAIN em_mat[q] = 0..AlphabetSize
                      /\ SumTo(em_mat[q], AlphabetSize + 1) = One
                      /\ q # terminal => em_mat[q][AlphabetSize] = 0
               /\ em_mat[terminal][AlphabetSize] = One
               /\ \A c \in 0..(AlphabetSize - 1) : em_mat[terminal][c] = 0

\* the emitter of two models of different lengths, one with a match row
\* that is not uniform, has made its matrices
C23_Witness ==
    /\ B # << >>
    /\ \E i, j \in DOMAIN length :
          /\ length[i] < length[j]
          /\ \E q \in DOMAIN emission_kernel[j] :
                emission_kernel[j][q][0] # emission_kernel[j][q][1]

\* C24: in the tensor B that make_B builds for models of different
\* lengths, the matrix of every model has exactly max_num_states rows, the
\* rows of the model's own states are the rows of its emission matrix, and
\* every padding row (index at or above the model's number of states) is
\* zero for every symbol
C24_PaddingRowsZero ==
    B # << >> =>
        LET max_num_states ==
                CHOOSE Q \in {num_states(length[j]) : j \in DOMAIN length} :
                    \A j \in DOMAIN length : num_states(length[j]) <= Q
        IN /\ DOMAIN B[1] = DOMAIN length
           /\ \A i \in DOMAIN length :
                  /\ DOMAIN B[1][i] = 0..(max_num_states - 1)
                  /\ \A q \in 0..(max_num_states - 1) :
                         /\ DOMAIN B[1][i][q] = 0..AlphabetSize
                         /\ q < num_states(length[i]) =>
                                B[1][i][q] =
                                    make_default_emission_matrix(
                                        emission_kernel[i],
                                        insertion_kernel[i], length[i])[q]
                         /\ q >= num_states(length[i]) =>
                                \A c \in 0..AlphabetSize : B[1][i][q][c] = 0

\* B has been made for two models, the first shorter than the second: the
\* matrix of the first has padding rows
C24_Witness ==
    /\ B # << >>
    /\ DOMAIN length = 0..1
    /\ length[0] < length[1]
    /\ Cardinality(DOMAIN B[1][0]) > num_states(length[0])

----------------------------------------------------------------------------
(* Claims about the batches and the datasets of Training.py *)

\* C25: every batch built by DefaultBatchGenerator has width (longest
\* sequence of the batch) + 1; each row is the raw sequence followed only
\* by the terminal symbol alphabet_size; so every row ends with a terminal
\* symbol, and the length viterbi derives for the row (the number of
\* positions whose terminal channel is 0) is the true length of the
\* sequence and the index of the first terminal symbol
C25_BatchRowsEndTerminal ==
    batch # << >> =>
        LET rows == batch[1].batch
            idx == batch[1].indices
            longest == CHOOSE n \in {seq_lens[idx[i]] : i \in DOMAIN idx} :
                           \A i \in DOMAIN idx : seq_lens[idx[i]] <= n
        IN /\ DOMAIN rows = 0..(Len(idx) - 1)
           /\ \A i \in DOMAIN rows :
                  LET j == idx[i + 1]
                  IN /\ DOMAIN rows[i] = 0..longest
                     /\ \A pos \in 0..longest :
                            rows[i][pos] =
                                IF pos < seq_lens[j] THEN fasta_file[j][pos]
                                ELSE AlphabetSize
                     /\ rows[i][longest] = AlphabetSize
                     /\ viterbi_seq_lens(rows[i], AlphabetSize + 1)
                            = seq_lens[j]
                     /\ rows[i][seq_lens[j]] = AlphabetSize
                     /\ \A pos \in 0..(seq_lens[j] - 1) :
                            rows[i][pos] # AlphabetSize

\* a batch has been built of two sequences of different lengths, the
\* longer one first
C25_Witness ==
    /\ batch # << >>
    /\ Len(batch[1].indices) >= 2
    /\ seq_lens[batch[1].indices[1]] > seq_lens[batch[1].indices[2]]

\* C29: the dataset of make_dataset with shuffle=False is finite: it
\* yields the elements of indices once each, in their order, in
\* consecutive batches of batch_size elements (the last may be smaller),
\* and then ends; with shuffle=True it never ends, and fit_model trains on
\* it for at most epochs epochs of max(10, floor(100*sqrt(n)/batch_size))
\* steps each
C29_DatasetEndsOrRepeats ==
    dataset # << >> =>
        LET n == Len(indices)
        IN /\ ~dataset[1].shuffle =>
                 /\ \A b \in DOMAIN yielded :
                        /\ Len(yielded[b]) =
                               IF b * batch_size <= n THEN batch_size
                               ELSE n - (b - 1) * batch_size
                        /\ Len(yielded[b]) >= 1
                        /\ \A pos \in DOMAIN yielded[b] :
                               yielded[b][pos] =
                                   indices[(b - 1) * batch_size + pos]
                 /\ dataset[1].ended => Len(yielded) * batch_size >= n
           /\ dataset[1].shuffle => ~dataset[1].ended
           /\ epochs # << >> =>
                 /\ history.steps >= 10
                 /\ (history.steps * batch_size) * (history.steps * batch_size)
                        <= 10000 * n
                    \/ history.steps = 10
                 /\ 10000 * n < ((history.steps + 1) * batch_size)
                                    * ((history.steps + 1) * batch_size)
                 /\ history.step < history.steps
                 /\ history.epoch <= epochs[1]
                 /\ history.drawn
                        = history.epoch * history.steps + history.step
                 /\ history.drawn <= epochs[1] * history.steps

\* a dataset that is not shuffled has yielded all the indices, the last
\* batch smaller than batch_size, and has ended
C29_Witness ==
    /\ dataset # << >>
    /\ ~dataset[1].shuffle
    /\ dataset[1].ended
    /\ Len(yielded) >= 2
    /\ Len(yielded[Len(yielded)]) < batch_size

====
